---- MODULE Spec2Model ----
(***************************************************************************)
(* State-machine model of the vs1053 driver (src/src/vs1053_SdFat.cpp):    *)
(* the playback/recording session, the refill cycle run by the DREQ        *)
(* notification, the register and indirect-memory accessors, the cancel    *)
(* handshake, the patch loader and the OGG duration scan.                  *)
(*                                                                         *)
(* The driver's procedures are operators on a record s holding the         *)
(* driver's static fields, the storage handle, the chip and the counters   *)
(* of what one operation did; an action applies one public operation (or   *)
(* one notification cycle) to the current state.                           *)
(***************************************************************************)
EXTENDS Integers, Sequences, FiniteSets, TLC

(* ----------------------------- bounds ---------------------------------- *)
\* sizeof(mp3DataBuffer), counted in 32-byte flow-control quanta
BufferQuanta == 2
\* most times DREQ reads high in a row within one refill cycle
MaxFuel == 2
\* cap of the chip's decode-time counter (seconds)
MaxTime == 2
\* largest argument of skipTo and largest magnitude of skip
MaxSkip == 10
\* most chunks a recording grows to
MaxRecord == 2
\* most sessions (play or recordOgg past the busy check) in one run
MaxSessions == 1
\* most sessions in a run that plays one track again and again
MaxReplays == 2
\* most notifications served between a call's busy check and its next step
MaxNested == 1
\* most quanta the chip wants before it acknowledges a cancel
MaxAfter == 2

(* ------------------------ program constants ---------------------------- *)
QUANTUM == 32
RETRY_BUDGET == 64
FLUSH_BYTES == 2052
FILL_END_ROUNDS == 2052
KEEP_POSITION == -1
SCI_MODE == 0
SCI_BASS == 2
SCI_CLOCKF == 3
SCI_DECODE_TIME == 4
SCI_WRAM == 6
SCI_WRAMADDR == 7
SCI_HDAT1 == 9
SCI_AIADDR == 10
SCI_VOL == 11
SCI_AICTRL0 == 12
SCI_AICTRL1 == 13
SCI_AICTRL2 == 14
SCI_AICTRL3 == 15
para_recordingTime_0 == 8
para_interrupt == 49178
para_playSpeed == 7684
para_byteRate == 7685
para_endFillByte == 7686
SKIPPING_SPEED == 4
BUFFER_SIZE == BufferQuanta * QUANTUM

Min(a, b) == IF a < b THEN a ELSE b

(* ------------------------------ state ---------------------------------- *)
VARIABLES
  playing_state,   \* state_m vs1053::playing_state
  isPatched,       \* bool vs1053::isPatched
  isSkipping,      \* bool vs1053::isSkipping (fast-forward sub-phase)
  trackFormat,     \* format_m vs1053::trackFormat
  duration,        \* uint16_t vs1053::duration
  position,        \* uint32_t vs1053::position
  skipToPosition,  \* uint16_t vs1053::skipToPosition
  bufferOffset,    \* uint16_t vs1053::bufferOffset
  bufferValid,     \* uint8_t mp3DataBuffer[]: how many of its leading bytes the
                   \* last chunk read of a feed loop has put there (the bytes
                   \* behind them are what the buffer held before)
  bitrate,         \* bytes per millisecond, from the frame header
  start_of_music,  \* byte offset of the first frame
  VolL,            \* uint8_t vs1053::VolL
  VolR,            \* uint8_t vs1053::VolR
  trackOpen,       \* SdFile track: is open
  trackFile,       \* SdFile track: the file it was last opened on
  curPosition,     \* SdFile track: read/write offset
  refillEnabled,   \* the DREQ notification (interrupt) is attached
  oggEnabled,      \* the periodic drain of a recording is attached
  registers_backup, \* uint16_t vs1053::registers_backup[3]
  resetPin,        \* MP3_RESET line: TRUE = high = chip running
  chip,            \* the VS1053: registers, indirect memory, cancel bit
  pc,              \* position of the caller's thread inside stop/skipTo
  arg,             \* the caller's operation: t seconds, d delta, n notifications
                   \* served since its busy check
  given,           \* the input a procedure is applied to, where one is drawn
  sessions,        \* how many sessions the caller has started so far
  obs              \* what the operation that just ended did, until it is read

vars == << playing_state, isPatched, isSkipping, trackFormat, duration, position,
           skipToPosition, bufferOffset, bufferValid, bitrate, start_of_music, VolL, VolR,
           trackOpen, trackFile, curPosition, refillEnabled, oggEnabled,
           registers_backup, resetPin, chip, pc, arg, given, sessions, obs >>

\* the current state as one record, threaded through the procedures
Cur ==
  [ playing_state |-> playing_state, isPatched |-> isPatched, isSkipping |-> isSkipping,
    trackFormat |-> trackFormat, duration |-> duration, position |-> position,
    skipToPosition |-> skipToPosition, bufferOffset |-> bufferOffset,
    bufferValid |-> bufferValid,
    bitrate |-> bitrate, start_of_music |-> start_of_music, VolL |-> VolL,
    VolR |-> VolR, trackOpen |-> trackOpen, trackFile |-> trackFile,
    curPosition |-> curPosition, refillEnabled |-> refillEnabled,
    oggEnabled |-> oggEnabled, registers_backup |-> registers_backup,
    resetPin |-> resetPin, chip |-> chip, obs |-> obs ]

Install(s) ==
  /\ playing_state' = s.playing_state
  /\ isPatched' = s.isPatched
  /\ isSkipping' = s.isSkipping
  /\ trackFormat' = s.trackFormat
  /\ duration' = s.duration
  /\ position' = s.position
  /\ skipToPosition' = s.skipToPosition
  /\ bufferOffset' = s.bufferOffset
  /\ bufferValid' = s.bufferValid
  /\ bitrate' = s.bitrate
  /\ start_of_music' = s.start_of_music
  /\ VolL' = s.VolL
  /\ VolR' = s.VolR
  /\ trackOpen' = s.trackOpen
  /\ trackFile' = s.trackFile
  /\ curPosition' = s.curPosition
  /\ refillEnabled' = s.refillEnabled
  /\ oggEnabled' = s.oggEnabled
  /\ registers_backup' = s.registers_backup
  /\ resetPin' = s.resetPin
  /\ chip' = s.chip
  /\ obs' = s.obs

\* counters of one operation, cleared when the operation starts
NoObs ==
  [ op |-> "none", result |-> 0, nStorage |-> 0, nSeek |-> 0, seekTarget |-> -1,
    nClose |-> 0, nSci |-> 0, nSdi |-> 0, eos |-> FALSE, hsIters |-> 0,
    hsReset |-> FALSE, flushBefore |-> FALSE, flushAfter |-> FALSE,
    closedIn |-> "none", delta |-> 0, target |-> 0, rate |-> 0, words |-> << >>,
    reopen |-> FALSE, exit |-> "none", nWords |-> 0, nWrite |-> 0, reported |-> 0,
    underrun |-> FALSE, restored |-> << >>, stopAsked |-> FALSE, final |-> -1,
    half |-> FALSE, lastBytes |-> 0, bitrateWas |-> 0, channelNumber |-> 0,
    sampleRate |-> 0, nUnready |-> 0,
    hsReads |-> 0, hsTrack |-> 0, hsEof |-> FALSE, trail |-> << >>,
    nFillEnd |-> 0 ]

Begun(s, name) == [s EXCEPT !.obs = [NoObs EXCEPT !.op = name]]
Return(s, code) == [s EXCEPT !.obs.result = code]

(* ------------------------- storage collaborator ------------------------ *)
(* The card holds files; a file is named by a descriptor from which its    *)
(* bytes follow:                                                           *)
(*   [fmt |-> "ogg", size, hdr, ch, rate, page, samples]  an OGG stream    *)
(*       with the identification header at offset hdr and the final page   *)
(*       at offset page;                                                   *)
(*   [fmt |-> "mp3", size, som, hb, code, kbps]  a frame-coded stream      *)
(*       whose first frame header (0xFF, hb, code << 4) is at offset som   *)
(*       and which the chip decodes at kbps kilobits per second;           *)
(*   [fmt |-> "053", bytes]  a patch file given byte by byte;              *)
(*   [fmt |-> "out"]  a file created for writing;                          *)
(*   [fmt |-> "missing"]  a name that is not on the card.                  *)
Marker1 == << 1, 118, 111, 114, 98, 105, 115 >>     \* 0x01 "vorbis"
Marker2 == << 79, 103, 103, 83, 0, 4 >>             \* "OggS" 0x00 0x04

\* byte k (0 = least significant) of a little-endian field holding v
ByteOf(v, k) ==
  CASE k = 0 -> v % 256
    [] k = 1 -> (v \div 256) % 256
    [] k = 2 -> (v \div 65536) % 256
    [] k = 3 -> (v \div 16777216) % 256
    [] OTHER -> 0

FileSize(f) ==
  CASE f.fmt \in {"ogg", "mp3"} -> f.size
    [] f.fmt = "053" -> Len(f.bytes)
    [] OTHER -> 0

\* the byte at offset i of file f, 0 <= i < FileSize(f)
ByteAt(f, i) ==
  CASE f.fmt = "053" -> f.bytes[i + 1]
    [] f.fmt = "ogg" ->
         (CASE i >= f.hdr /\ i < f.hdr + 7 -> Marker1[i - f.hdr + 1]
            [] i >= f.hdr + 7 /\ i < f.hdr + 11 -> 0
            [] i = f.hdr + 11 -> f.ch
            [] i > f.hdr + 11 /\ i < f.hdr + 16 -> ByteOf(f.rate, i - f.hdr - 12)
            [] i >= f.page /\ i < f.page + 6 -> Marker2[i - f.page + 1]
            [] i >= f.page + 6 /\ i < f.page + 14 -> ByteOf(f.samples, i - f.page - 6)
            [] OTHER -> 32)
    [] f.fmt = "mp3" ->
         (CASE i = f.som -> 255
            [] i = f.som + 1 -> f.hb
            [] i = f.som + 2 -> (f.code * 16) % 256
            [] OTHER -> 0)
    [] OTHER -> 0

Missing == [fmt |-> "missing"]

\* SdFile::open: fails on a missing file and on a handle that is already open
TrackOpen(s, f) ==
  LET t == [s EXCEPT !.obs.nStorage = @ + 1, !.obs.reopen = @ \/ s.trackOpen]
  IN IF s.trackOpen \/ f.fmt = "missing"
     THEN [s |-> t, ok |-> FALSE]
     ELSE [s |-> [t EXCEPT !.trackOpen = TRUE, !.trackFile = f, !.curPosition = 0],
           ok |-> TRUE]

\* SdFile::read(buf, n): the count of bytes read, 0 at the end of the file,
\* -1 on a handle that is closed or not readable; at is where the bytes came from
TrackRead(s, n) ==
  LET t == [s EXCEPT !.obs.nStorage = @ + 1]
  IN IF ~s.trackOpen \/ s.trackFile.fmt = "out"
     THEN [s |-> t, n |-> -1, at |-> 0]
     ELSE LET got == Min(n, FileSize(s.trackFile) - s.curPosition)
          IN [s |-> [t EXCEPT !.curPosition = @ + got], n |-> got, at |-> s.curPosition]

\* SdFile::seekSet(pos): fails on a closed handle and beyond the end of the file
TrackSeekSet(s, pos) ==
  LET t == [s EXCEPT !.obs.nStorage = @ + 1, !.obs.nSeek = @ + 1, !.obs.seekTarget = pos]
  IN IF ~s.trackOpen \/ pos < 0 \/ pos > FileSize(s.trackFile)
     THEN [s |-> t, ok |-> FALSE]
     ELSE [s |-> [t EXCEPT !.curPosition = pos], ok |-> TRUE]

\* SdFile::close
TrackClose(s, where) ==
  [s EXCEPT !.trackOpen = FALSE, !.obs.nStorage = @ + 1,
            !.obs.nClose = @ + 1, !.obs.closedIn = where]

(* ------------------------- frame-header tables ------------------------- *)
bitrate_table ==
  << <<   0,   0,   0,   0,   0,   0 >>,
     <<  32,  32,  32,  32,   8,   8 >>,
     <<  64,  48,  40,  48,  16,  16 >>,
     <<  96,  56,  48,  56,  24,  24 >>,
     << 128,  64,  56,  64,  32,  32 >>,
     << 160,  80,  64,  80,  40,  40 >>,
     << 192,  96,  80,  96,  48,  48 >>,
     << 224, 112,  96, 112,  56,  56 >>,
     << 256, 128, 112, 128,  64,  64 >>,
     << 288, 160, 128, 144,  80,  80 >>,
     << 320, 192, 160, 160,  96,  69 >>,
     << 352, 224, 192, 176, 112, 112 >>,
     << 384, 256, 224, 192, 128, 128 >>,
     << 416, 320, 256, 224, 144, 144 >>,
     << 448, 384, 320, 256, 160, 160 >> >>

\* (uint8_t) of the int a one-byte read returns
AsUint8(b) == IF b < 0 THEN b + 256 ELSE b

\* the column the second header byte selects; -1 = the scan goes on
FrameColumn(temp, row_num) ==
  IF (temp \div 8) % 2 = 0 THEN 3
  ELSE IF (temp \div 2) % 4 = 2 THEN row_num + 1
  ELSE IF (temp \div 2) % 4 = 1 THEN row_num + 2
  ELSE -1

\* the average byte rate the chip reports once it decodes file f
ChipByteRate(f) ==
  CASE f.fmt = "mp3" -> f.kbps * 125
    [] f.fmt = "ogg" -> 16000
    [] OTHER -> 0

(* -------------------------------- chip --------------------------------- *)
\* The chip after a soft reset.  While smCancel is set, cancelLeft counts the
\* quanta the chip still wants before it clears SM_CANCEL; 0 = it never does.
\* waiting is the number of words the encoder holds for SCI_HDAT0.
ChipReset(c) ==
  [c EXCEPT !.smCancel = FALSE, !.cancelLeft = 0, !.decodeTime = 0, !.byteRate = 0,
            !.playSpeed = 1, !.wram = [a \in {} |-> 0], !.waiting = 0]

\* the chip when the reset line is released
ChipPowerUp ==
  [ smCancel |-> FALSE, cancelLeft |-> 0, decodeTime |-> 0, vol |-> 0, regs |-> [r \in {} |-> 0],
    wramAddr |-> 0, wram |-> [a \in {} |-> 0], byteRate |-> 0, playSpeed |-> 1,
    waiting |-> 0 ]

\* a write of SCI_MODE: SM_RESET restarts the chip, SM_CANCEL requests a cancel
\* that the chip acknowledges after `after` further quanta
ChipWriteMode(c, cancelBit, resetBit, after) ==
  IF resetBit THEN ChipReset(c)
  ELSE IF cancelBit /\ ~c.smCancel THEN [c EXCEPT !.smCancel = TRUE, !.cancelLeft = after]
  ELSE c

\* n bytes on the data channel: every full quantum counts towards the cancel
ChipFeed(c, n) ==
  IF c.smCancel /\ c.cancelLeft > 0 /\ n >= QUANTUM
  THEN IF c.cancelLeft <= n \div QUANTUM
       THEN [c EXCEPT !.smCancel = FALSE, !.cancelLeft = 0]
       ELSE [c EXCEPT !.cancelLeft = @ - (n \div QUANTUM)]
  ELSE c

\* indirect memory: the address register auto-increments on every data access
ChipReadWram(c) ==
  CASE c.wramAddr = para_byteRate -> c.byteRate
    [] c.wramAddr = para_recordingTime_0 -> c.decodeTime % 65536
    [] c.wramAddr = para_recordingTime_0 + 1 -> c.decodeTime \div 65536
    [] c.wramAddr = para_playSpeed -> c.playSpeed
    [] c.wramAddr = para_endFillByte -> 0
    [] c.wramAddr \in DOMAIN c.wram -> c.wram[c.wramAddr]
    [] OTHER -> 0

ChipWriteWram(c, w) ==
  CASE c.wramAddr = para_playSpeed -> [c EXCEPT !.playSpeed = w]
    [] c.wramAddr \in {para_byteRate, para_endFillByte} -> c
    [] OTHER -> [c EXCEPT !.wram = (c.wramAddr :> w) @@ c.wram]

ChipBumpAddr(c) == [c EXCEPT !.wramAddr = (@ + 1) % 65536]

\* a 16-bit write of control register reg
ChipWrite(c, reg, w, after) ==
  CASE reg = SCI_MODE -> ChipWriteMode(c, (w \div 8) % 2 = 1, (w \div 4) % 2 = 1, after)
    [] reg = SCI_DECODE_TIME -> [c EXCEPT !.decodeTime = w]
    [] reg = SCI_VOL -> [c EXCEPT !.vol = w]
    [] reg = SCI_WRAMADDR -> [c EXCEPT !.wramAddr = w]
    [] reg = SCI_WRAM -> ChipBumpAddr(ChipWriteWram(c, w))
    [] OTHER -> [c EXCEPT !.regs = (reg :> w) @@ c.regs]

\* SM_LINE1 | SM_SDINEW, what SCI_MODE holds after a reset
SM_DEFAULT == 18432
CLOCK_3X == 24576
CLOCK_45X == 49152

\* the value a 16-bit read of control register reg returns (SM_CANCEL is bit 3)
ChipValue(c, reg) ==
  CASE reg = SCI_MODE -> IF c.smCancel THEN SM_DEFAULT + 8 ELSE SM_DEFAULT
    [] reg = SCI_DECODE_TIME -> c.decodeTime
    [] reg = SCI_VOL -> c.vol
    [] reg = SCI_WRAMADDR -> c.wramAddr
    [] reg = SCI_WRAM -> ChipReadWram(c)
    [] reg = SCI_HDAT1 -> c.waiting
    [] OTHER -> IF reg \in DOMAIN c.regs THEN c.regs[reg] ELSE 0

ChipAfterRead(c, reg) == IF reg = SCI_WRAM THEN ChipBumpAddr(c) ELSE c

(* ----------------------- notification collaborator --------------------- *)
enableRefill(s) == [s EXCEPT !.refillEnabled = TRUE]
disableRefill(s) == [s EXCEPT !.refillEnabled = FALSE]
enableRefillRecording(s) == [s EXCEPT !.oggEnabled = TRUE]
disableRefillRecording(s) == [s EXCEPT !.oggEnabled = FALSE]

(* ------------------------------ busy code ------------------------------ *)
\* a busy code that does not look at the reset line
isBusy_StateOnly(s) ==
  CASE s.playing_state \in {"playback", "paused_playback"} -> 1
    [] s.playing_state = "recording" -> 2
    [] s.playing_state \in {"cancelling", "skipping"} -> 3
    [] s.playing_state = "finishing" -> 4
    [] OTHER -> 0

isBusy(s) ==
  IF ~s.resetPin THEN 255
  ELSE CASE s.playing_state \in {"playback", "paused_playback"} -> 1
         [] s.playing_state = "recording" -> 2
         [] s.playing_state \in {"cancelling", "skipping"} -> 3
         [] s.playing_state = "finishing" -> 4
         [] OTHER -> 0

(* ---------------------------- bus protocol ----------------------------- *)
\* v | bit, for bit a power of two
OrBit(v, bit) == IF (v \div bit) % 2 = 1 THEN v ELSE v + bit
SM_RESET == 4
SM_CANCEL == 8
SM_ADPCM == 4096

\* n bytes sent on the data channel (XDCS asserted)
Sdi(s, n) == [s EXCEPT !.chip = ChipFeed(@, n), !.obs.nSdi = @ + n]

RECURSIVE refill(_, _)

\* Mp3WriteRegister up to cs_low(): the notification is detached if the state
\* is playback, and in no other state
Mp3WriteRegisterSelect(s) ==
  IF s.playing_state = "playback" THEN disableRefill(s) ELSE s

\* Mp3WriteRegister from the first SPI.transfer on, DREQ having been waited
\* for: the four bytes, cs_high(), and during playback a refill cycle and the
\* notification attached again
Mp3WriteRegisterSent(s, e, address, msb, lsb) ==
  LET Transfer(s1) ==
        [s1 EXCEPT !.chip = ChipWrite(@, address % 256, msb * 256 + lsb, e.after),
                   !.obs.nSci = @ + 1]
  IN IF s.playing_state = "playback" THEN enableRefill(refill(Transfer(s), e))
     ELSE Transfer(s)

\* Mp3WriteRegister(address, msb, lsb): the 4-byte write transaction; during
\* playback the notification is detached around it and a refill cycle follows
Mp3WriteRegisterBytes(s, e, address, msb, lsb) ==
  IF ~s.resetPin THEN s
  ELSE Mp3WriteRegisterSent(Mp3WriteRegisterSelect(s), e, address, msb, lsb)

\* Mp3WriteRegister(address, data): the word split big-endian
Mp3WriteRegister(s, e, address, data) ==
  Mp3WriteRegisterBytes(s, e, address, (data \div 256) % 256, data % 256)

\* Mp3ReadRegister(address): the 4-byte read transaction, made once DREQ is
\* high; 0 while in reset
Mp3ReadRegister(s, e, address) ==
  LET Transfer(s1) ==
        [s1 EXCEPT !.chip = ChipAfterRead(@, address % 256), !.obs.nSci = @ + 1]
      w == ChipValue(s.chip, address % 256)
      msb == w \div 256
      lsb == w % 256
  IN IF ~s.resetPin THEN [s |-> s, v |-> 0]
     ELSE [s |-> IF s.playing_state = "playback"
                 THEN enableRefill(refill(Transfer(disableRefill(s)), e))
                 ELSE Transfer(s),
           v |-> msb * 256 + lsb]

\* Mp3WriteRegister(address, r | bits), r the result of a Mp3ReadRegister
Mp3WriteRegisterOr(r, e, address, bits) ==
  Mp3WriteRegister(r.s, e, address, OrBit(r.v, bits))

\* Mp3ReadWRAM(address), 16-bit
Mp3ReadWRAM(s, e, address) ==
  Mp3ReadRegister(Mp3WriteRegister(s, e, SCI_WRAMADDR, address), e, SCI_WRAM)

\* Mp3WriteWRAM(address, data), 16-bit
Mp3WriteWRAM(s, e, address, data) ==
  Mp3WriteRegister(Mp3WriteRegister(s, e, SCI_WRAMADDR, address), e, SCI_WRAM, data)

\* Mp3WriteRegister(SCI_VOL, VolL, VolR)
Unmute(s, e) == Mp3WriteRegisterBytes(s, e, SCI_VOL, s.VolL, s.VolR)

(* ------------------------- cancel / flush protocol --------------------- *)
\* fillEnd: 2052 rounds of 32 fill bytes, one DREQ wait per round
fillEnd(s) ==
  [Sdi(s, FILL_END_ROUNDS * QUANTUM)
     EXCEPT !.obs.trail = Append(@, "fillEnd"),
            !.obs.nFillEnd = @ + FILL_END_ROUNDS * QUANTUM]

\* a soft reset that leaves the patch marked as applied
SoftReset_KeepsPatch(s, e) ==
  [Mp3WriteRegisterOr(Mp3ReadRegister(s, e, SCI_MODE), e, SCI_MODE, SM_RESET)
     EXCEPT !.obs.hsReset = TRUE]

\* the soft reset both handshakes fall back to
SoftReset(s, e) ==
  [Mp3WriteRegisterOr(Mp3ReadRegister(s, e, SCI_MODE), e, SCI_MODE, SM_RESET)
     EXCEPT !.isPatched = FALSE, !.obs.hsReset = TRUE]

\* one quantum of cancelDecoding(fillTrack = true): the next bytes of the track,
\* the buffer refilled from storage when used up (fill bytes past the end)
\* (hsReads counts the chunk reads of the handshake, hsTrack the bytes it feeds
\* before the buffer is overwritten with the fill byte)
CancelFeedTrack(s, e) ==
  LET rd == TrackRead(s, BUFFER_SIZE)
      Noted(o) == [o EXCEPT !.hsTrack = IF o.hsEof THEN @ ELSE @ + QUANTUM]
      Fed(s1) == [Sdi(s1, QUANTUM) EXCEPT !.bufferOffset = @ + QUANTUM, !.obs = Noted(@)]
  IN Fed(IF s.bufferOffset # BUFFER_SIZE THEN s
         ELSE [(IF rd.n = 0
                THEN [Mp3ReadWRAM(rd.s, e, para_endFillByte).s EXCEPT !.obs.hsEof = TRUE]
                ELSE rd.s)
                 EXCEPT !.bufferOffset = 0, !.obs.hsReads = @ + 1,
                        !.bufferValid = IF rd.n = 0 THEN BUFFER_SIZE
                                        ELSE IF rd.n < 0 THEN 0 ELSE rd.n])

RECURSIVE CancelLoop(_, _, _, _)

\* the end of one iteration: r is the SCI_MODE just read
CancelPoll(r, e, fillTrack, i) ==
  IF (r.v \div SM_CANCEL) % 2 = 0 THEN r.s ELSE CancelLoop(r.s, e, fillTrack, i + 1)

\* the for loop from iteration i on, and the reset that follows a loop that
\* ran out
CancelLoop(s, e, fillTrack, i) ==
  IF i = RETRY_BUDGET THEN SoftReset(s, e)
  ELSE CancelPoll(
         Mp3ReadRegister(
           [(IF fillTrack THEN CancelFeedTrack(s, e) ELSE Sdi(s, QUANTUM))
              EXCEPT !.obs.hsIters = @ + 1],
           e, SCI_MODE),
         e, fillTrack, i)

\* (the trail notes the cancel request and the end of the handshake)
cancelDecoding(s, e, fillTrack) ==
  LET Finished(s1) == [s1 EXCEPT !.obs.trail = Append(@, "cancelled")]
  IN Finished(
       CancelLoop(
         [Mp3WriteRegisterOr(Mp3ReadRegister(s, e, SCI_MODE), e, SCI_MODE, SM_CANCEL)
            EXCEPT !.obs.hsIters = 0, !.obs.hsReset = FALSE, !.obs.hsReads = 0,
                   !.obs.hsTrack = 0, !.obs.hsEof = FALSE,
                   !.obs.trail = Append(@, "cancel")],
         e, fillTrack, 0))

RECURSIVE FlushLoop(_, _, _, _)

\* the end of one iteration: c is the SCI_MODE just read
FlushPoll(c, e, mode, n) ==
  IF (c.v \div SM_CANCEL) % 2 = 0
  THEN IF mode \in {"pre", "both"}
       THEN [Sdi(c.s, FLUSH_BYTES) EXCEPT !.obs.flushAfter = TRUE]
       ELSE c.s
  ELSE FlushLoop(c.s, e, mode, n + 1)

FlushLoop(s, e, mode, n) ==
  IF n = RETRY_BUDGET THEN SoftReset(s, e)
  ELSE FlushPoll(
         Mp3ReadRegister(
           [Sdi(Mp3WriteRegisterOr(Mp3ReadRegister(s, e, SCI_MODE), e, SCI_MODE, SM_CANCEL),
                QUANTUM)
              EXCEPT !.obs.hsIters = @ + 1],
           e, SCI_MODE),
         e, mode, n)

flush_cancel(s, e, mode) ==
  LET Cleared(s0) ==
        [s0 EXCEPT !.obs.hsIters = 0, !.obs.hsReset = FALSE,
                   !.obs.flushBefore = FALSE, !.obs.flushAfter = FALSE]
      Flushed(s1) ==
        IF mode \in {"post", "both"}
        THEN [Sdi(s1, FLUSH_BYTES) EXCEPT !.obs.flushBefore = TRUE]
        ELSE s1
  IN FlushLoop(Flushed(Cleared(Mp3ReadWRAM(s, e, para_endFillByte).s)), e, mode, 0)

(* ------------------------------ refill --------------------------------- *)
\* an end of the track that cancels before it flushes
RefillTrackEnd_CancelFirst(s, e) ==
  [TrackClose(
     fillEnd(
       cancelDecoding(Mp3ReadWRAM(disableRefill([s EXCEPT !.position = s.duration,
                                                          !.playing_state = "cancelling",
                                                          !.obs.eos = TRUE]),
                                  e, para_endFillByte).s,
                      e, FALSE)),
     "refill")
     EXCEPT !.playing_state = "ready"]

\* end of the track (a chunk read returned nothing)
RefillTrackEnd(s, e) ==
  [TrackClose(
     cancelDecoding(
       fillEnd(Mp3ReadWRAM(disableRefill([s EXCEPT !.position = s.duration,
                                                   !.playing_state = "cancelling",
                                                   !.obs.eos = TRUE]),
                           e, para_endFillByte).s),
       e, FALSE),
     "refill")
     EXCEPT !.playing_state = "ready"]

\* a cycle that observes cancelling and feeds the fill byte only
RefillCancelling_FillOnly(s, e) ==
  [TrackClose(
     fillEnd(Mp3ReadWRAM(cancelDecoding(disableRefill(s), e, FALSE), e, para_endFillByte).s),
     "refill")
     EXCEPT !.playing_state = "ready"]

\* a cycle that observes cancelling
RefillCancelling(s, e) ==
  [TrackClose(
     fillEnd(Mp3ReadWRAM(cancelDecoding(disableRefill(s), e, TRUE), e, para_endFillByte).s),
     "refill")
     EXCEPT !.playing_state = "ready"]

\* rewind of a skip whose target lies behind the position
RefillRewind(s, e) ==
  LET Rewound(s2) == [TrackSeekSet(s2, 0).s EXCEPT !.bufferOffset = BUFFER_SIZE]
  IN [Mp3WriteRegister(
        Mp3WriteRegister(
          Rewound(fillEnd(Mp3ReadWRAM(cancelDecoding(s, e, TRUE), e, para_endFillByte).s)),
          e, SCI_DECODE_TIME, 0),
        e, SCI_DECODE_TIME, 0)
        EXCEPT !.position = 0]

\* start of the fast-forward sub-phase
RefillSkipStart(s, e) ==
  [Mp3WriteWRAM(Mp3WriteRegisterBytes(s, e, SCI_VOL, 254, 254), e,
                para_playSpeed, SKIPPING_SPEED)
     EXCEPT !.isSkipping = TRUE]

\* the chip when its decode time is read after a chunk of file f: the time may
\* have advanced by adv, and the byte rate of the stream is known
ChipTick(c, adv, f) ==
  [c EXCEPT !.decodeTime = IF @ >= MaxTime THEN @ ELSE @ + adv,
            !.byteRate = ChipByteRate(f)]

\* feed one quantum; at a chunk boundary read SCI_DECODE_TIME directly: the
\* read follows the data transfer with no wait for DREQ, which nUnready counts
RefillFeed(s, e) ==
  LET s1 == [Sdi(s, QUANTUM) EXCEPT !.bufferOffset = @ + QUANTUM]
      c == ChipTick(s1.chip, e.adv, s1.trackFile)
  IN IF s1.bufferOffset = BUFFER_SIZE
     THEN [s1 EXCEPT !.chip = c, !.position = c.decodeTime, !.obs.nSci = @ + 1,
                     !.obs.nUnready = @ + 1]
     ELSE s1

RECURSIVE RefillLoop(_, _, _)
RefillLoop(s, e, fuel) ==
  LET rd == TrackRead(s, BUFFER_SIZE)
      exhausted == s.bufferOffset = BUFFER_SIZE
      s1 == IF exhausted
            THEN [rd.s EXCEPT !.bufferOffset = 0,
                              !.bufferValid = IF rd.n < 0 THEN 0 ELSE rd.n]
            ELSE s
  IN IF fuel = 0 \/ ~s.resetPin THEN s
     ELSE IF exhausted /\ rd.n = 0 THEN RefillTrackEnd(rd.s, e)
     ELSE IF s1.playing_state = "cancelling" THEN RefillCancelling(s1, e)
     ELSE IF s1.playing_state = "skipping" /\ ~s1.isSkipping
             /\ s1.position > s1.skipToPosition
     THEN RefillLoop(RefillRewind(s1, e), e, fuel - 1)
     ELSE RefillLoop(
            RefillFeed(IF s1.playing_state = "skipping" /\ ~s1.isSkipping
                       THEN RefillSkipStart(s1, e) ELSE s1,
                       e),
            e, fuel - 1)

\* the check made after the loop: the fast-forward has reached its target
RefillSkipDone(s, e) ==
  IF s.isSkipping /\ s.position >= s.skipToPosition
  THEN [Unmute(Mp3WriteWRAM(s, e, para_playSpeed, 1), e)
          EXCEPT !.isSkipping = FALSE, !.playing_state = "playback"]
  ELSE s

refill(s, e) == RefillSkipDone(RefillLoop(s, e, e.fuel), e)

(* ---------------------------- patch loader ----------------------------- *)
\* a union read that takes the first byte of the file for the high byte
UnionRead_BigEndian(old, f, at, n) ==
  LET hi == IF n >= 1 THEN ByteAt(f, at) ELSE old \div 256
      lo == IF n >= 2 THEN ByteAt(f, at + 1) ELSE old % 256
  IN lo + 256 * hi

\* a read of n <= 2 bytes into a union twobyte holding old: byte[0] is the
\* low byte of .word, and a byte the read did not deliver keeps its value
UnionRead(old, f, at, n) ==
  LET lo == IF n >= 1 THEN ByteAt(f, at) ELSE old % 256
      hi == IF n >= 2 THEN ByteAt(f, at + 1) ELSE old \div 256
  IN lo + 256 * hi

\* RLE run: the same word written n times to register addr
RECURSIVE LoadRleRun(_, _, _, _, _)
LoadRleRun(s, e, addr, val, n) ==
  IF n = 0 THEN s
  ELSE LoadRleRun(Mp3WriteRegister(s, e, addr, val), e, addr, val, n - 1)

\* copy run: n words read one by one, each written to register addr; the
\* result is the loop's variables when the run ends
RECURSIVE LoadCopyRun(_, _, _, _, _)
LoadCopyRun(s, e, addr, val, n) ==
  LET rd == TrackRead(s, 2)
      w == UnionRead(val, s.trackFile, rd.at, rd.n)
  IN IF n = 0 THEN [s |-> s, addr |-> addr, n |-> 65535, val |-> val]
     ELSE IF rd.n = 0 THEN [s |-> rd.s, addr |-> addr, n |-> n - 1, val |-> val]
     ELSE LoadCopyRun(Mp3WriteRegister(rd.s, e, addr, w), e, addr, w, n - 1)

\* the record loop; l holds the storage and the three unions addr, n and val
RECURSIVE LoadRecords(_, _)
LoadRecords(l, e) ==
  LET ra == TrackRead(l.s, 2)
      addr == UnionRead(l.addr, l.s.trackFile, ra.at, ra.n)
      rn == TrackRead(ra.s, 2)
      n == UnionRead(l.n, l.s.trackFile, rn.at, rn.n)
      rv == TrackRead(rn.s, 2)
      val == UnionRead(l.val, l.s.trackFile, rv.at, rv.n)
  IN IF ra.n = 0 THEN ra.s
     ELSE IF rn.n = 0 THEN rn.s
     ELSE IF n >= 32768
     THEN IF rv.n = 0 THEN rv.s
          ELSE LoadRecords([s |-> LoadRleRun(rv.s, e, addr, val, n - 32768),
                            addr |-> addr, n |-> 65535, val |-> val], e)
     ELSE LoadRecords(LoadCopyRun(rn.s, e, addr, l.val, n), e)

\* a loader that asks for the busy code before it looks at the reset line
VSLoadUserCode_BusyFirst(s, e, f) ==
  LET o == TrackOpen(s, f)
  IN IF isBusy(s) # 0 THEN [s |-> s, r |-> 1]
     ELSE IF ~s.resetPin THEN [s |-> s, r |-> 3]
     ELSE IF ~o.ok THEN [s |-> o.s, r |-> 2]
     ELSE [s |-> TrackClose(LoadRecords([s |-> o.s, addr |-> 0, n |-> 0, val |-> 0], e),
                            "VSLoadUserCode"),
           r |-> 0]

VSLoadUserCode(s, e, f) ==
  LET o == TrackOpen(s, f)
  IN IF ~s.resetPin THEN [s |-> s, r |-> 3]
     ELSE IF isBusy(s) # 0 THEN [s |-> s, r |-> 1]
     ELSE IF ~o.ok THEN [s |-> o.s, r |-> 2]
     ELSE [s |-> TrackClose(LoadRecords([s |-> o.s, addr |-> 0, n |-> 0, val |-> 0], e),
                            "VSLoadUserCode"),
           r |-> 0]

(* ---------------------------- image loader ----------------------------- *)
\* track.read(temp, n) that delivered got bytes from offset at: the bytes it did
\* not deliver keep what temp held
ReadInto(temp, f, at, got) ==
  [i \in 1..5 |-> IF i <= got THEN ByteAt(f, at + i - 1) ELSE temp[i]]

\* while (n > 0): one word read and written to SCI_WRAM; the result is the
\* loop's variables when it ends
RECURSIVE ImageData(_, _, _, _)
ImageData(s, e, temp, n) ==
  LET rd == TrackRead(s, 2)
      got == ReadInto(temp, s.trackFile, rd.at, rd.n)
  IN IF n = 0 THEN [s |-> s, temp |-> temp, n |-> 0]
     ELSE IF rd.n = 0 THEN [s |-> rd.s, temp |-> temp, n |-> n]
     ELSE ImageData(Mp3WriteRegister(rd.s, e, SCI_WRAM, got[1] * 256 + got[2]), e, got, n - 1)

\* a record loop that takes the length field for a count of words
RECURSIVE ImageRecords_LengthInWords(_, _, _)
ImageRecords_LengthInWords(s, e, temp) ==
  LET rd == TrackRead(s, 5)
      got == ReadInto(temp, s.trackFile, rd.at, rd.n)
      n == got[2] * 256 + got[3]
      addr == got[4] * 256 + got[5]
      offset == CASE got[1] = 0 -> 32768 [] got[1] = 1 -> 0 [] OTHER -> 16384
      Looped(d) == IF d.n # 0 THEN [s |-> d.s, r |-> 2, address |-> 65535]
                 ELSE ImageRecords_LengthInWords(d.s, e, d.temp)
  IN IF rd.n = 0 \/ got[1] >= 4 THEN [s |-> rd.s, r |-> 2, address |-> 65535]
     ELSE IF got[1] = 3 THEN [s |-> rd.s, r |-> 0, address |-> addr]
     ELSE Looped(ImageData(Mp3WriteRegister(rd.s, e, SCI_WRAMADDR, (addr + offset) % 65536),
                         e, got, n))

\* the record loop; the result is the storage, the result code and *address
RECURSIVE ImageRecords(_, _, _)
ImageRecords(s, e, temp) ==
  LET rd == TrackRead(s, 5)
      got == ReadInto(temp, s.trackFile, rd.at, rd.n)
      n == (got[2] * 256 + got[3]) \div 2
      addr == got[4] * 256 + got[5]
      offset == CASE got[1] = 0 -> 32768 [] got[1] = 1 -> 0 [] OTHER -> 16384
      Looped(d) == IF d.n # 0 THEN [s |-> d.s, r |-> 2, address |-> 65535]
                 ELSE ImageRecords(d.s, e, d.temp)
  IN IF rd.n = 0 \/ got[1] >= 4 THEN [s |-> rd.s, r |-> 2, address |-> 65535]
     ELSE IF got[1] = 3 THEN [s |-> rd.s, r |-> 0, address |-> addr]
     ELSE Looped(ImageData(Mp3WriteRegister(rd.s, e, SCI_WRAMADDR, (addr + offset) % 65536),
                         e, got, n))

\* VSLoadImage(fileName, &address); temp[] holds junk when it is declared
VSLoadImage(s, e, f, junk) ==
  LET o == TrackOpen(s, f)
      Closed(l) == [s |-> TrackClose(l.s, "VSLoadImage"), r |-> l.r, address |-> l.address]
      Magic(rd) ==
        LET got == ReadInto([i \in 1..5 |-> junk], f, rd.at, rd.n)
        IN IF rd.n = 0 \/ got[1] # 80 \/ got[2] # 38 \/ got[3] # 72
           THEN Closed([s |-> rd.s, r |-> 2, address |-> 65535])
           ELSE Closed(ImageRecords(rd.s, e, got))
  IN IF ~s.resetPin THEN [s |-> s, r |-> 3, address |-> 65535]
     ELSE IF isBusy(s) # 0 THEN [s |-> s, r |-> 1, address |-> 65535]
     ELSE IF ~o.ok THEN [s |-> o.s, r |-> 2, address |-> 65535]
     ELSE Magic(TrackRead(o.s, 3))

(* ------------------------- frame-header scan --------------------------- *)
SCAN_LIMIT == 65535

\* SdFile::read() of one byte: the byte, or -1 at the end of the file
TrackReadByte(s) ==
  LET rd == TrackRead(s, 1)
  IN [s |-> rd.s, b |-> IF rd.n = 1 THEN ByteAt(s.trackFile, rd.at) ELSE -1]

\* SdFile::seekSet(curPosition() + delta)
TrackSeekCur(s, delta) == TrackSeekSet(s, s.curPosition + delta).s

RECURSIVE FrameScan(_, _)

\* a sync byte was read: r2 is the read of the byte after it
FrameSync(r2, i) ==
  LET temp == AsUint8(r2.b)
      col == FrameColumn(temp, 0)
      Table(back, code) ==
        [back EXCEPT !.bitrate = bitrate_table[code + 1][col + 1] \div 8,
                     !.start_of_music = back.curPosition]
      Found(r3) == Table(TrackSeekCur(r3.s, -3), AsUint8(r3.b) \div 16)
  IN IF temp >= 224 /\ (temp \div 2) % 4 # 0 /\ col >= 0
     THEN Found(TrackReadByte(r2.s))
     ELSE FrameScan(r2.s, i + 1)

FrameScan(s, i) ==
  LET r1 == TrackReadByte(s)
  IN IF i >= SCAN_LIMIT THEN s
     ELSE IF r1.b = -1 THEN [r1.s EXCEPT !.obs.nStorage = @ + (SCAN_LIMIT - 1 - i)]
     ELSE IF r1.b # 255 THEN FrameScan(r1.s, i + 1)
     ELSE FrameSync(TrackReadByte(r1.s), i)

\* a scan that starts from the bitrate it finds
getBitRateFromMP3File_KeepsBitrate(s) ==
  FrameScan([s EXCEPT !.obs.bitrateWas = s.bitrate], 0)

getBitRateFromMP3File(s) ==
  FrameScan([s EXCEPT !.bitrate = 0, !.obs.bitrateWas = s.bitrate], 0)

\* setBitRate(bitr)
setBitRate(s, bitr) == [s EXCEPT !.bitrate = bitr]

(* --------------------------- container scan ---------------------------- *)
\* mp3DataBuffer after a read that delivered n bytes from offset at of file f
BufRead(buf, f, at, n) ==
  [i \in DOMAIN buf |-> IF i < n THEN ByteAt(f, at + i) ELSE buf[i]]

\* track.read(mp3DataBuffer, n): the storage, the buffer and the count
TrackReadBuf(s, buf, n) ==
  LET rd == TrackRead(s, n)
  IN [s |-> rd.s, buf |-> BufRead(buf, s.trackFile, rd.at, rd.n), n |-> rd.n]

\* !memcmp(marker, &mp3DataBuffer[from], sizeof marker); below is what lies in
\* memory before the buffer (read when from = -1)
Matches(buf, from, marker, below) ==
  \A k \in 1..Len(marker) :
     (IF from + k - 1 < 0 THEN below ELSE buf[from + k - 1]) = marker[k]

\* little-endian fields of the buffer, within the range of the model's
\* integers: bit 31 of a 32-bit field is dropped, and a 64-bit field with a
\* nonzero upper half saturates
LE32(buf, o) == buf[o] + 256 * buf[o + 1] + 65536 * buf[o + 2] + 16777216 * (buf[o + 3] % 128)
LE64(buf, o) ==
  IF \E k \in 4..7 : buf[o + k] # 0 THEN 2147483647 ELSE LE32(buf, o)

\* the for loop of the forward scan, from index i on; m is the storage and the
\* buffer. The loop leaves at the first 'v' that lies too near the end of the
\* buffer or that the marker surrounds
IdScan(m, i, ub) ==
  LET Across(m2) ==
        [s |-> m2.s, buf |-> m2.buf,
         offset |-> IF Matches(m2.buf, 0, Marker1, ub % 256) THEN 11 ELSE -1]
      Leaves ==
        { j \in i..(BUFFER_SIZE - 1) :
            /\ m.buf[j] = 118
            /\ (j + 6 > BUFFER_SIZE \/ Matches(m.buf, j - 1, Marker1, ub % 256)) }
      At(j) ==
        IF j + 6 > BUFFER_SIZE
        THEN Across(TrackReadBuf(TrackSeekCur(m.s, j - 1 - BUFFER_SIZE), m.buf, 16))
        ELSE [s |-> m.s, buf |-> m.buf, offset |-> j + 10]
  IN IF Leaves = {} THEN [s |-> m.s, buf |-> m.buf, offset |-> -1]
     ELSE At(CHOOSE j \in Leaves : \A k \in Leaves : j <= k)

RECURSIVE IdChunks(_, _, _)

\* the identification header was looked for in one chunk: sc is what IdScan found
IdFields(sc, ub) ==
  LET Fields(m, off) ==
        [s |-> m.s, buf |-> m.buf, ch |-> m.buf[off], rate |-> LE32(m.buf, off + 1)]
  IN IF sc.offset < 0 THEN IdChunks(sc.s, sc.buf, ub)
     ELSE IF sc.offset + 4 >= BUFFER_SIZE
     THEN Fields(TrackReadBuf(TrackSeekCur(sc.s, sc.offset - BUFFER_SIZE), sc.buf, 5), 0)
     ELSE Fields(sc, sc.offset)

\* the forward scan, chunk by chunk: channel count and sample rate
IdChunks(s, buf, ub) ==
  LET m == TrackReadBuf(s, buf, BUFFER_SIZE)
  IN IF m.n = 0 THEN [s |-> m.s, buf |-> buf, ch |-> 0, rate |-> 0]
     ELSE IdFields(IdScan(m, 0, ub), ub)

\* the for loop of the backward scan, from index i on: it leaves at the first
\* 'O' that lies too near the end of the buffer or that starts the marker
PageScan(m, i, readOffset) ==
  LET Across(m2) ==
        [s |-> m2.s, buf |-> m2.buf,
         offset |-> IF Matches(m2.buf, 0, Marker2, 0) THEN 6 ELSE -1]
      Leaves ==
        { j \in i..(BUFFER_SIZE - 1) :
            /\ m.buf[j] = 79
            /\ (j + 6 > BUFFER_SIZE \/ Matches(m.buf, j, Marker2, 0)) }
      At(j) ==
        IF j + 6 > BUFFER_SIZE
        THEN Across(TrackReadBuf(TrackSeekSet(m.s, readOffset + j).s, m.buf, 14))
        ELSE [s |-> m.s, buf |-> m.buf, offset |-> j + 6]
  IN IF Leaves = {} THEN [s |-> m.s, buf |-> m.buf, offset |-> -1]
     ELSE At(CHOOSE j \in Leaves : \A k \in Leaves : j <= k)

RECURSIVE PageChunks(_, _)

\* the final page was looked for in the chunk read at readOffset
PageFields(sc, readOffset) ==
  LET Fields(m, off) == [s |-> m.s, samples |-> LE64(m.buf, off)]
  IN IF sc.offset < 0
     THEN PageChunks(TrackSeekSet(sc.s, readOffset - BUFFER_SIZE).s, sc.buf)
     ELSE IF sc.offset + 7 >= BUFFER_SIZE
     THEN Fields(TrackReadBuf(TrackSeekCur(sc.s, sc.offset - BUFFER_SIZE), sc.buf, 8), 0)
     ELSE Fields(sc, sc.offset)

\* the backward scan, chunk by chunk: the final page's sample position
PageChunks(s, buf) ==
  IF s.curPosition < BUFFER_SIZE THEN [s |-> s, samples |-> 0]
  ELSE PageFields(PageScan(TrackReadBuf(s, buf, BUFFER_SIZE), 0, s.curPosition),
                  s.curPosition)

\* SdFile::seekEnd()
TrackSeekEnd(s) == TrackSeekSet(s, FileSize(s.trackFile)).s

\* a duration that forgets the channel count
OggDuration_PerSample(samples, ch, rate, ub) ==
  IF ch = 0 \/ rate = 0 THEN ub ELSE (samples \div rate) % 65536

\* (uint16_t)(sampleNumber / channelNumber / sampleRate); ub is what a division
\* by zero turns out to be
OggDuration(samples, ch, rate, ub) ==
  IF ch = 0 \/ rate = 0 THEN ub ELSE ((samples \div ch) \div rate) % 65536

\* the final page looked for, id being what the forward scan found
OggPages(id, ub) ==
  LET Ended(pg) ==
        [TrackSeekSet(pg.s, 0).s
           EXCEPT !.duration = OggDuration(pg.samples, id.ch, id.rate, ub)]
  IN Ended(PageChunks(TrackSeekCur(TrackSeekEnd(id.s), -BUFFER_SIZE), id.buf))

\* ub is what a division by zero, or the byte before the buffer, turns out to be
getOggInfo(s, ub) ==
  LET Noted(id) ==
        [id EXCEPT !.s.obs.channelNumber = id.ch, !.s.obs.sampleRate = id.rate]
  IN OggPages(Noted(IdChunks(TrackSeekSet(s, 0).s, [i \in 0..(BUFFER_SIZE - 1) |-> 0], ub)),
              ub)

(* --------------------------- public operations ------------------------- *)
\* the card: the patch applied at start-up and the encoder profile
PatchesFile == [fmt |-> "053", bytes |-> << 7, 0, 1, 0, 16, 128, 6, 0, 2, 128, 52, 18 >>]
ProfileFile == [fmt |-> "053", bytes |-> << 7, 0, 1, 0, 32, 128, 6, 0, 1, 0, 1, 0 >>]

\* x as a uint16_t
U16(x) == ((x % 65536) + 65536) % 65536

\* the format follows from the name's extension
getTrackFormat(f) == IF f.fmt \in {"ogg", "mp3"} THEN f.fmt ELSE "unknown"

vs_init(s, e) ==
  LET Loaded(l) ==
        IF l.r # 0 THEN [s |-> l.s, r |-> 6]
        ELSE [s |-> Unmute([l.s EXCEPT !.isPatched = TRUE], e), r |-> 0]
      Clocked(c) ==
        IF c.v # CLOCK_3X THEN [s |-> c.s, r |-> 5]
        ELSE Loaded(VSLoadUserCode(c.s, e, PatchesFile))
      Up(m) ==
        IF m.v # SM_DEFAULT THEN [s |-> m.s, r |-> 4]
        ELSE Clocked(Mp3ReadRegister(Mp3WriteRegister(m.s, e, SCI_CLOCKF, CLOCK_3X),
                                     e, SCI_CLOCKF))
  IN Up(Mp3ReadRegister([s EXCEPT !.resetPin = TRUE, !.chip = ChipPowerUp], e, SCI_MODE))

begin(s, e) ==
  LET Returned(v) == Return(v.s, v.r)
  IN Returned(vs_init([s EXCEPT !.resetPin = FALSE, !.playing_state = "initialized"], e))

\* setVolume up to the control select of its register write
setVolume(s, leftchannel, rightchannel) ==
  Mp3WriteRegisterSelect([s EXCEPT !.VolL = leftchannel, !.VolR = rightchannel])

\* play once the storage is open: the stream's parameters are read, the decode
\* time is cleared and the first refill cycle runs
PlayOpened(s, e, f, timecode, ub) ==
  LET s2 == [s EXCEPT !.trackFormat = getTrackFormat(f), !.bufferOffset = BUFFER_SIZE,
                      !.isSkipping = FALSE, !.start_of_music = 0, !.duration = 0]
      Sought(b) ==
        IF timecode > 0
        THEN TrackSeekSet(b, timecode * b.bitrate + b.start_of_music).s
        ELSE b
  IN enableRefill(
       refill(
         [Mp3WriteRegister(
            Mp3WriteRegister(
              CASE s2.trackFormat = "ogg" -> getOggInfo(s2, ub)
                [] s2.trackFormat = "mp3" -> Sought(getBitRateFromMP3File(s2))
                [] OTHER -> s2,
              e, SCI_DECODE_TIME, 0),
            e, SCI_DECODE_TIME, 0)
           EXCEPT !.playing_state = "playback"],
         e))

\* play, after the busy check
PlayTrack(s, e, f, timecode, ub) ==
  LET Opened(o) ==
        IF ~o.ok THEN Return(o.s, 2) ELSE Return(PlayOpened(o.s, e, f, timecode, ub), 0)
  IN Opened(TrackOpen(IF ~s.isPatched
                      THEN [VSLoadUserCode(s, e, PatchesFile).s EXCEPT !.isPatched = TRUE]
                      ELSE s,
                      f))

\* play without its busy check
play_Unchecked(s, e, f, timecode, ub) == PlayTrack(s, e, f, timecode, ub)

play(s, e, f, timecode, ub) ==
  IF isBusy(s) # 0 THEN Return(s, 1) ELSE PlayTrack(s, e, f, timecode, ub)

\* a stop that closes the storage itself
StopAssign_Closing(s) ==
  TrackClose([s EXCEPT !.playing_state = "cancelling"], "stop")

\* stop, after its busy check
StopAssign(s) ==
  LET isPaused == s.playing_state = "paused_playback"
      s1 == [s EXCEPT !.playing_state = "cancelling"]
  IN IF isPaused THEN enableRefill(s1) ELSE s1

end(s) ==
  LET s1 == IF isBusy(s) = 1 THEN StopAssign(s) ELSE s
  IN [s1 EXCEPT !.resetPin = FALSE, !.playing_state = "uninitialized"]

\* a pause that leaves the notification attached
pauseMusic_KeepsNotification(s) ==
  IF s.playing_state # "playback" \/ ~s.resetPin THEN s
  ELSE [s EXCEPT !.playing_state = "paused_playback"]

pauseMusic(s) ==
  IF s.playing_state # "playback" \/ ~s.resetPin THEN s
  ELSE [disableRefill(s) EXCEPT !.playing_state = "paused_playback"]

\* a resume that takes the keep-position sentinel for a time code
resumeMusic_AlwaysSeeks(s, e, timecode) ==
  LET Seek(r) == TrackSeekSet(r.s, (timecode * r.v) \div 1000 + r.s.start_of_music)
      Resumed(k) ==
        IF ~k.ok THEN Return(k.s, 2)
        ELSE Return([enableRefill(k.s) EXCEPT !.playing_state = "playback"], 0)
  IN IF s.playing_state # "paused_playback" \/ ~s.resetPin THEN Return(s, 1)
     ELSE Resumed(Seek(Mp3ReadWRAM(s, e, para_byteRate)))

\* a resume that goes on whether or not the seek was made
resumeMusic_IgnoresSeek(s, e, timecode) ==
  LET Seek(r) == TrackSeekSet(r.s, (timecode * r.v) \div 1000 + r.s.start_of_music)
      Resumed(k) == Return([enableRefill(k.s) EXCEPT !.playing_state = "playback"], 0)
  IN IF s.playing_state # "paused_playback" \/ ~s.resetPin THEN Return(s, 1)
     ELSE IF timecode # KEEP_POSITION
     THEN Resumed(Seek(Mp3ReadWRAM(s, e, para_byteRate)))
     ELSE Return([enableRefill(s) EXCEPT !.playing_state = "playback"], 0)

resumeMusic(s, e, timecode) ==
  LET Seek(r) == TrackSeekSet(r.s, (timecode * r.v) \div 1000 + r.s.start_of_music)
      Resumed(k) ==
        IF ~k.ok THEN Return(k.s, 2)
        ELSE Return([enableRefill(k.s) EXCEPT !.playing_state = "playback"], 0)
  IN IF s.playing_state # "paused_playback" \/ ~s.resetPin THEN Return(s, 1)
     ELSE IF timecode # KEEP_POSITION
     THEN Resumed(Seek(Mp3ReadWRAM(s, e, para_byteRate)))
     ELSE Return([enableRefill(s) EXCEPT !.playing_state = "playback"], 0)

\* the target skip computes; curFirst is whether the storage offset is read
\* before the byte rate, ub what a division by zero turns out to be; the byte
\* rate read and the bytes played so far are left for the observer
skipTarget(s, e, seconds, curFirst, ub) ==
  LET Target(r, cur) ==
        [s |-> [r.s EXCEPT !.obs.rate = r.v, !.obs.delta = cur - r.s.start_of_music],
         t |-> (IF r.v = 0 THEN ub ELSE (cur - r.s.start_of_music) \div r.v) + seconds]
      Read(r) == Target(r, IF curFirst THEN s.curPosition ELSE r.s.curPosition)
  IN IF s.trackFormat = "ogg"
     THEN [s |-> s,
           t |-> IF seconds < 0 /\ -seconds > s.position THEN 0
                 ELSE IF s.position + seconds > s.duration THEN s.duration
                 ELSE s.position + seconds]
     ELSE Read(Mp3ReadWRAM(s, e, para_byteRate))

\* a skipTo on an OGG session that takes the target as it comes
SkipToOgg_Unclamped(s, seconds) ==
  LET isPaused == s.playing_state = "paused_playback"
      s1 == [s EXCEPT !.skipToPosition = U16(seconds), !.playing_state = "skipping"]
  IN Return(IF isPaused THEN enableRefill(s1) ELSE s1, 0)

\* skipTo on an OGG session: the target is left to the refill cycles
SkipToOgg(s, seconds) ==
  LET isPaused == s.playing_state = "paused_playback"
      s1 == IF seconds >= s.duration
            THEN [s EXCEPT !.skipToPosition = s.duration, !.playing_state = "cancelling"]
            ELSE [s EXCEPT !.skipToPosition = U16(seconds), !.playing_state = "skipping"]
  IN Return(IF isPaused THEN enableRefill(s1) ELSE s1, 0)

\* skipTo on a frame-coded session once the seek was made: k is its result
SkipToSought(k, e, seconds) ==
  IF ~k.ok THEN Return(k.s, 2)
  ELSE Return(
         enableRefill(
           [Unmute(
              refill(
                Mp3WriteRegister(
                  Mp3WriteRegister(
                    flush_cancel(Mp3WriteRegisterBytes(k.s, e, SCI_VOL, 254, 254), e, "pre"),
                    e, SCI_DECODE_TIME, U16(seconds)),
                  e, SCI_DECODE_TIME, U16(seconds)),
                e),
              e)
             EXCEPT !.playing_state = "playback"]),
         0)

\* a skipTo that seeks by the per-millisecond bitrate of the frame header
SkipToBody_Bitrate(s, e, seconds) ==
  LET Seek(r) ==
        TrackSeekSet([r.s EXCEPT !.obs.rate = r.v],
                     seconds * r.s.bitrate + r.s.start_of_music)
  IN IF s.trackFormat = "ogg" THEN SkipToOgg(s, seconds)
     ELSE SkipToSought(
            Seek(Mp3ReadWRAM([disableRefill(s) EXCEPT !.playing_state = "paused_playback"],
                             e, para_byteRate)),
            e, seconds)

\* skipTo, after its busy check
SkipToBody(s, e, seconds) ==
  LET Seek(r) ==
        TrackSeekSet([r.s EXCEPT !.obs.rate = r.v], seconds * r.v + r.s.start_of_music)
  IN IF s.trackFormat = "ogg" THEN SkipToOgg(s, seconds)
     ELSE SkipToSought(
            Seek(Mp3ReadWRAM([disableRefill(s) EXCEPT !.playing_state = "paused_playback"],
                             e, para_byteRate)),
            e, seconds)

\* SdFile::write(buf, n): the write fails on a closed handle and when the card
\* refuses it (e.fail names the write of this drain that does, 0 = none), and a
\* write of no bytes counts as failed
TrackWrite(s, e, n) ==
  LET t == [s EXCEPT !.obs.nStorage = @ + 1, !.obs.nWrite = @ + 1]
      ok == s.trackOpen /\ n > 0 /\ e.fail # s.obs.nWrite + 1
  IN [s |-> IF ok THEN [t EXCEPT !.curPosition = @ + n] ELSE t, ok |-> ok]

\* Mp3WriteRegister(address, registers_backup[i])
RestoreRegister(s, e, address, i) ==
  [Mp3WriteRegister(s, e, address, s.registers_backup[i])
     EXCEPT !.obs.restored = Append(@, << address, s.registers_backup[i] >>)]

\* recordOgg once the encoder profile is loaded: the input mode and the gain
\* are set, the file is created and the encoder started
RecordLoaded(s, e, f) ==
  LET Opened(o) ==
        IF ~o.ok THEN Return([o.s EXCEPT !.obs.exit = "open"], 2)
        ELSE Return(enableRefillRecording(
                      [Mp3WriteRegister(o.s, e, SCI_AIADDR, 52)
                         EXCEPT !.playing_state = "recording"]),
                    0)
  IN Opened(
       TrackOpen(
         Mp3WriteRegister(
           Mp3WriteRegister(
             Mp3WriteRegister(
               Mp3WriteRegisterOr(Mp3ReadRegister(s, e, SCI_MODE), e, SCI_MODE, SM_ADPCM),
               e, SCI_AICTRL1, 1024),
             e, SCI_AICTRL2, 0),
           e, SCI_AICTRL3, 0),
         f))

recordOgg(s, e, f, profile) ==
  LET Backup(r, i) == [r.s EXCEPT !.registers_backup[i] = r.v]
      Reset(s1) ==
        [Mp3WriteRegister(s1, e, SCI_MODE, OrBit(s1.registers_backup[3], SM_RESET))
           EXCEPT !.isPatched = FALSE]
      Loaded(l) ==
        IF l.r # 0 THEN Return([l.s EXCEPT !.playing_state = "ready", !.obs.exit = "profile"], 2)
        ELSE RecordLoaded(l.s, e, f)
  IN IF isBusy(s) # 0 THEN Return([s EXCEPT !.obs.exit = "busy"], 1)
     ELSE Loaded(
            VSLoadUserCode(
              Mp3WriteWRAM(
                Mp3WriteRegister(
                  Reset(
                    Mp3WriteRegister(
                      Mp3WriteRegister(
                        Backup(
                          Mp3ReadRegister(
                            Backup(
                              Mp3ReadRegister(
                                Backup(
                                  Mp3ReadRegister([s EXCEPT !.playing_state = "loading"],
                                                  e, SCI_CLOCKF),
                                  1),
                                e, SCI_BASS),
                              2),
                            e, SCI_MODE),
                          3),
                        e, SCI_CLOCKF, CLOCK_45X),
                      e, SCI_BASS, 0)),
                  e, SCI_AIADDR, 0),
                e, para_interrupt, 2),
              e, profile))

stopRecord(s) ==
  IF isBusy(s) # 2 THEN s ELSE [s EXCEPT !.playing_state = "finishing"]

\* the chip's time counter goes on counting while it is read: e.ticks[k], where
\* the environment names them, is what it gains after the k-th read
ChipCount(s, e, k) ==
  IF "ticks" \in DOMAIN e THEN [s EXCEPT !.chip.decodeTime = @ + e.ticks[k]] ELSE s

\* a 32-bit read that keeps the high word read first
Mp3ReadWRAM32Low_FirstHigh(msb, e, address) ==
  LET Value(lsb, msb2) == [s |-> msb2.s, v |-> 65536 * msb.v + lsb.v]
      Again(lsb) == Value(lsb, Mp3ReadRegister(ChipCount(lsb.s, e, 2), e, SCI_WRAM))
  IN Again(Mp3ReadWRAM(ChipCount(msb.s, e, 1), e, address))

\* the low word and the second read of the high word; msb is the first
Mp3ReadWRAM32Low(msb, e, address) ==
  LET Value(lsb, msb2) ==
        [s |-> msb2.s, v |-> 65536 * (IF lsb.v < 32768 THEN msb2.v ELSE msb.v) + lsb.v]
      Again(lsb) == Value(lsb, Mp3ReadRegister(ChipCount(lsb.s, e, 2), e, SCI_WRAM))
  IN Again(Mp3ReadWRAM(ChipCount(msb.s, e, 1), e, address))

\* Mp3ReadWRAM(address, true): the 32-bit read, the high word read twice
Mp3ReadWRAM32(s, e, address) ==
  Mp3ReadWRAM32Low(Mp3ReadWRAM(s, e, address + 1), e, address)

\* the encoder has produced n more words
ChipEncode(s, n) == [s EXCEPT !.chip.waiting = @ + n, !.obs.reported = @ + n]

\* the encoder, asked to stop, when the driver polls it for the poll-th time: up
\* to poll e.polls it goes on encoding (e.more words each time); then it puts out
\* its last e.last words and raises the stopped flag of SCI_AICTRL3 (bit 1), with
\* the half-word flag (bit 2) if the last word holds one byte only
ChipEncoderPoll(s, e, poll) ==
  LET v == ChipValue(s.chip, SCI_AICTRL3)
      flags == OrBit(IF e.half THEN OrBit(v, 4) ELSE v, 2)
  IN IF poll < e.polls THEN ChipEncode(s, e.more)
     ELSE [ChipEncode(s, e.last) EXCEPT !.chip.regs = (SCI_AICTRL3 :> flags) @@ @,
                                        !.obs.final = s.chip.waiting + e.last,
                                        !.obs.half = e.half]

\* n reads of SCI_HDAT0, one word each (the state is recording or finishing: a
\* register read is the bus transaction and nothing else)
OggReadWords(s, n) ==
  [s EXCEPT !.chip.waiting = IF @ >= n THEN @ - n ELSE 0,
            !.obs.underrun = @ \/ s.chip.waiting < n,
            !.obs.nSci = @ + n, !.obs.nWords = @ + n]

\* while (waiting >= sizeof(mp3DataBuffer) >> 1): whole chunks moved to storage
RECURSIVE OggChunks(_, _, _)
OggChunks(s, e, waiting) ==
  LET w == TrackWrite(OggReadWords(s, BUFFER_SIZE \div 2), e, BUFFER_SIZE)
  IN IF waiting < BUFFER_SIZE \div 2 THEN [s |-> s, failed |-> FALSE]
     ELSE IF ~w.ok THEN [s |-> w.s, failed |-> TRUE]
     ELSE OggChunks(w.s, e, waiting - BUFFER_SIZE \div 2)

\* a wrap-up that keeps both bytes of the last word whatever the flag says
RECURSIVE OggWrapUp_FullLastWord(_, _, _, _)
OggWrapUp_FullLastWord(s, e, waiting, finished) ==
  LET whole == waiting > BUFFER_SIZE \div 2
      lastWord == finished /\ ~whole
      size0 == IF whole THEN BUFFER_SIZE
               ELSE IF finished THEN U16((waiting - 1) * 2) ELSE U16(waiting * 2)
      size == IF lastWord THEN size0 + 2 ELSE size0
      s1 == OggReadWords(s, size0 \div 2)
      s2 == IF lastWord
            THEN [OggReadWords(s1, 1) EXCEPT !.obs.nSci = @ + 2, !.obs.lastBytes = 2]
            ELSE s1
      w == TrackWrite(s2, e, size)
  IN IF waiting = 0 THEN [s |-> s, failed |-> FALSE]
     ELSE IF ~w.ok THEN [s |-> w.s, failed |-> TRUE]
     ELSE OggWrapUp_FullLastWord(w.s, e, U16(waiting - (size + 1) \div 2), finished)

\* while (waiting > 0) of the wrap-up: a whole chunk, or what is left; once the
\* encoder has stopped the last word is read apart, SCI_AICTRL3 is read twice, and
\* the word's second byte is kept unless the half-word flag is set
RECURSIVE OggWrapUp(_, _, _, _)
OggWrapUp(s, e, waiting, finished) ==
  LET whole == waiting > BUFFER_SIZE \div 2
      lastWord == finished /\ ~whole
      size0 == IF whole THEN BUFFER_SIZE
               ELSE IF finished THEN U16((waiting - 1) * 2) ELSE U16(waiting * 2)
      s1 == OggReadWords(s, size0 \div 2)
      half == (ChipValue(s.chip, SCI_AICTRL3) \div 4) % 2 = 1
      size == IF lastWord THEN size0 + (IF half THEN 1 ELSE 2) ELSE size0
      s2 == IF lastWord
            THEN [OggReadWords(s1, 1) EXCEPT !.obs.nSci = @ + 2,
                                             !.obs.lastBytes = size - size0]
            ELSE s1
      w == TrackWrite(s2, e, size)
  IN IF waiting = 0 THEN [s |-> s, failed |-> FALSE]
     ELSE IF ~w.ok THEN [s |-> w.s, failed |-> TRUE]
     ELSE OggWrapUp(w.s, e, U16(waiting - (size + 1) \div 2), finished)

\* while (!finished): the stopped flag is polled, then what waits is wrapped up
RECURSIVE OggPoll(_, _, _)
OggPoll(s, e, poll) ==
  LET Polled(w, finished) ==
        IF w.failed \/ finished THEN w ELSE OggPoll(w.s, e, poll + 1)
      Waiting(r1, finished) == Polled(OggWrapUp(r1.s, e, r1.v, finished), finished)
      Flag(r3) == Waiting(Mp3ReadRegister(r3.s, e, SCI_HDAT1), (r3.v \div 2) % 2 = 1)
  IN Flag(Mp3ReadRegister(ChipEncoderPoll(s, e, poll), e, SCI_AICTRL3))

\* Mp3WriteRegister(SCI_AICTRL3, Mp3ReadRegister(SCI_AICTRL3) | _BV(0))
OggStop(s, e) ==
  [Mp3WriteRegisterOr(Mp3ReadRegister(s, e, SCI_AICTRL3), e, SCI_AICTRL3, 1)
     EXCEPT !.obs.stopAsked = TRUE]

\* an end of recording that leaves the mode register as the reset left it
OggFinished_NoModeRestore(s, e) ==
  [Mp3WriteRegisterOr(
     Mp3ReadRegister(
       RestoreRegister(
         RestoreRegister(TrackClose(disableRefillRecording(s), "oggRefill"),
                         e, SCI_CLOCKF, 1),
         e, SCI_BASS, 2),
       e, SCI_MODE),
     e, SCI_MODE, SM_RESET)
     EXCEPT !.isPatched = FALSE, !.playing_state = "ready"]

\* if (finished): storage closed, the chip reset, the registers restored
OggFinished(s, e) ==
  [RestoreRegister(
     [Mp3WriteRegisterOr(
        Mp3ReadRegister(
          RestoreRegister(
            RestoreRegister(TrackClose(disableRefillRecording(s), "oggRefill"),
                            e, SCI_CLOCKF, 1),
            e, SCI_BASS, 2),
          e, SCI_MODE),
        e, SCI_MODE, SM_RESET)
        EXCEPT !.isPatched = FALSE],
     e, SCI_MODE, 3)
     EXCEPT !.playing_state = "ready"]

\* position = Mp3ReadWRAM(para_recordingTime_0, true), t being what was read,
\* and the request for the recording level (the level poll in its first phase)
OggPosition(t, e) == Mp3WriteRegister([t.s EXCEPT !.position = t.v], e, SCI_AICTRL0, 32768)

\* one drain of the encoder: e.fuel chunks and e.rest words have been encoded
\* since the last one
oggRefill(s, e) ==
  LET Tick(s2) == [s2 EXCEPT !.chip.decodeTime = IF @ >= MaxTime THEN @ ELSE @ + e.adv]
      Entered(r) == OggChunks(r.s, e, r.v)
      Finishing(c) ==
        IF c.s.playing_state # "finishing" THEN c
        ELSE IF c.failed THEN [s |-> OggStop(c.s, e), failed |-> TRUE]
        ELSE OggPoll(OggStop(c.s, e), e, 0)
      Timed(d) ==
        [s |-> OggPosition(Mp3ReadWRAM32(Tick(d.s), e, para_recordingTime_0), e),
         failed |-> d.failed]
      Ended(d) ==
        Return(IF d.failed \/ d.s.playing_state = "finishing"
               THEN OggFinished(d.s, e) ELSE d.s,
               IF d.failed THEN 2 ELSE 0)
  IN Ended(Timed(Finishing(Entered(
       Mp3ReadRegister(ChipEncode(s, e.fuel * (BUFFER_SIZE \div 2) + e.rest),
                       e, SCI_HDAT1)))))

writeOggInLoop(s, e) ==
  IF isBusy(s) \notin {2, 4} THEN Return(s, 1) ELSE oggRefill(s, e)

(* ------------------------------ environment ---------------------------- *)
\* what the chip does during one operation: fuel = how many times in a row DREQ
\* reads high in a refill cycle, adv = how far the decode time has moved on when
\* it is read, after = how many quanta the chip wants before it clears SM_CANCEL
\* (0 = it never does; the sessions below run on a chip that does)
Env == [fuel : 0..MaxFuel, adv : {0, 1}, after : 1..MaxAfter]

\* an operation that makes no refill and no cancel sees nothing of the chip's timing
Still == [fuel |-> 0, adv |-> 0, after |-> 1]
EnvIf(timed) == IF timed THEN Env ELSE {Still}

\* the outcomes of a division by zero this model distinguishes
Undef == {0, 1}

\* the files played: an OGG stream of two seconds and a 128 kbps frame-coded one
OggFile ==
  [fmt |-> "ogg", size |-> 2 * BUFFER_SIZE, hdr |-> 28, ch |-> 2, rate |-> 8000,
   page |-> 2 * BUFFER_SIZE - 40, samples |-> 32000]
Mp3File ==
  [fmt |-> "mp3", size |-> 2 * BUFFER_SIZE, som |-> 10, hb |-> 251, code |-> 9, kbps |-> 128]
OutFile == [fmt |-> "out"]
Tracks == {OggFile, Mp3File, Missing}
Volumes == {48}
Timecodes == {KEEP_POSITION, 1, 1000}
SkipTargets == {0, 1, MaxSkip}
SkipDeltas == {-1, 0, 1, MaxSkip}
NoArg == [t |-> 0, d |-> 0, n |-> 0]

(* -------------------------------- actions ------------------------------ *)
\* the driver before begin and the chip held in reset
PowerUp ==
  /\ playing_state = "uninitialized"
  /\ isPatched = FALSE
  /\ isSkipping = FALSE
  /\ trackFormat = "unknown"
  /\ duration = 0
  /\ position = 0
  /\ skipToPosition = 0
  /\ bufferOffset = 0
  /\ bufferValid = 0
  /\ bitrate = 0
  /\ start_of_music = 0
  /\ VolL = 48
  /\ VolR = 48
  /\ trackOpen = FALSE
  /\ trackFile = Missing
  /\ curPosition = 0
  /\ refillEnabled = FALSE
  /\ oggEnabled = FALSE
  /\ registers_backup = << 0, 0, 0 >>
  /\ resetPin = FALSE
  /\ chip = ChipPowerUp
  /\ pc = "idle"
  /\ arg = NoArg
  /\ sessions = 0
  /\ obs = NoObs

Init == PowerUp /\ given = << >>

\* the caller is between two operations and has read what the last one did
Idle == pc = "idle" /\ obs = NoObs

\* an operation that ran to its end with arguments a
Done(s, a) ==
  /\ Install(s)
  /\ pc' = "idle"
  /\ arg' = a
  /\ UNCHANGED << given, sessions >>

\* play or recordOgg ran to its end: past the busy check a session has started
Started(s, a) ==
  /\ Install(s)
  /\ pc' = "idle"
  /\ arg' = a
  /\ sessions' = IF isBusy(Cur) = 0 THEN sessions + 1 ELSE sessions
  /\ UNCHANGED given

\* what the operation that just ended did has been read
Observed ==
  /\ obs # NoObs
  /\ obs' = NoObs
  /\ arg' = IF pc = "idle" THEN NoArg ELSE arg
  /\ UNCHANGED << playing_state, isPatched, isSkipping, trackFormat, duration, position,
                  skipToPosition, bufferOffset, bufferValid, bitrate, start_of_music, VolL, VolR,
                  trackOpen, trackFile, curPosition, refillEnabled, oggEnabled,
                  registers_backup, resetPin, chip, pc, given, sessions >>

\* begin is called on a driver that is not initialized
Begin ==
  /\ Idle
  /\ playing_state = "uninitialized"
  /\ \E e \in Env : Done(begin(Begun(Cur, "begin"), e), NoArg)

End ==
  /\ Idle
  /\ Done(end(Begun(Cur, "end")), NoArg)

Play ==
  /\ Idle
  /\ isBusy(Cur) # 0 \/ sessions < MaxSessions
  /\ \E f \in Tracks :
       \E e \in EnvIf(isBusy(Cur) = 0 /\ f # Missing),
          ub \in IF isBusy(Cur) = 0 /\ f = OggFile THEN Undef ELSE {0} :
          Started(play(Begun(Cur, "play"), e, f, 0, ub), NoArg)

\* stop up to its busy check; the notification may be served before StopSet
Stop ==
  /\ Idle
  /\ IF isBusy(Cur) # 1 THEN Done(Return(Begun(Cur, "stop"), 1), NoArg)
     ELSE pc' = "stop" /\ Install(Cur) /\ arg' = NoArg /\ UNCHANGED << given, sessions >>

StopSet ==
  /\ pc = "stop"
  /\ obs = NoObs
  /\ Done(StopAssign(Begun(Cur, "stop")), NoArg)

\* isBusy called by the sketch
IsBusy ==
  /\ Idle
  /\ Done(Return(Begun(Cur, "isBusy"), isBusy(Cur)), NoArg)

PauseMusic ==
  /\ Idle
  /\ Done(pauseMusic(Begun(Cur, "pauseMusic")), NoArg)

ResumeMusic ==
  /\ Idle
  /\ \E timecode \in Timecodes :
        Done(resumeMusic(Begun(Cur, "resumeMusic"), Still, timecode),
             [t |-> timecode, d |-> 0, n |-> 0])

\* skipTo up to its busy check
SkipTo ==
  /\ Idle
  /\ \E seconds \in SkipTargets :
        IF isBusy(Cur) # 1
        THEN Done(Return(Begun(Cur, "skipTo"), 1), [t |-> seconds, d |-> 0, n |-> 0])
        ELSE pc' = "skipTo" /\ Install(Cur) /\ arg' = [t |-> seconds, d |-> 0, n |-> 0]
             /\ UNCHANGED << given, sessions >>

\* skip up to the busy check of the skipTo it ends in
Skip ==
  /\ Idle
  /\ \E seconds \in SkipDeltas :
       \E e \in EnvIf(playing_state = "playback"), curFirst \in BOOLEAN,
          ub \in IF chip.byteRate = 0 THEN Undef ELSE {0} :
          LET Targeted(k, a) ==
                IF isBusy(k.s) # 1 THEN Done(Return(k.s, 1), a)
                ELSE pc' = "skipTo" /\ Install(k.s) /\ arg' = a
                     /\ UNCHANGED << given, sessions >>
              Target(k) == Targeted(k, [t |-> k.t, d |-> seconds, n |-> 0])
          IN IF isBusy(Cur) # 1 \/ seconds = 0
             THEN Done(Return(Begun(Cur, "skip"), 1), [t |-> 0, d |-> seconds, n |-> 0])
             ELSE Target(skipTarget(Begun(Cur, "skip"), e, seconds, curFirst, ub))

SkipToSet ==
  /\ pc = "skipTo"
  /\ obs = NoObs
  /\ \E e \in EnvIf(trackFormat # "ogg") :
        Done(SkipToBody(Begun(Cur, IF arg.d = 0 THEN "skipTo" ELSE "skip"), e, arg.t), arg)

\* setVolume up to cs_low() of its register write; the notification, where it is
\* still attached, may be served before SetVolumeSent
SetVolume ==
  /\ Idle
  /\ \E v \in Volumes :
        IF ~resetPin
        THEN Done([Begun(Cur, "setVolume") EXCEPT !.VolL = v, !.VolR = v],
                  [t |-> v, d |-> 0, n |-> 0])
        ELSE /\ pc' = "sci"
             /\ Install(setVolume(Cur, v, v))
             /\ arg' = [t |-> v, d |-> 0, n |-> 0]
             /\ UNCHANGED << given, sessions >>

SetVolumeSent ==
  /\ pc = "sci"
  /\ obs = NoObs
  /\ \E e \in EnvIf(playing_state = "playback") :
        Done(Mp3WriteRegisterSent(Begun(Cur, "setVolume"), e, SCI_VOL, arg.t, arg.t), arg)

\* VSLoadUserCode called by the sketch, with a patch file, with a patch file
\* that ends inside a copy run, and with a name that is not on the card;
\* arg.t says whether the name is on the card
LoadUserCode ==
  /\ Idle
  /\ \E f \in {PatchesFile, [fmt |-> "053", bytes |-> << 7, 0, 2, 0, 16, 128 >>], Missing} :
        LET Returned(l) ==
              Done(Return(l.s, l.r), [t |-> IF f = Missing THEN 0 ELSE 1, d |-> 0, n |-> 0])
        IN Returned(VSLoadUserCode(Begun(Cur, "VSLoadUserCode"), Still, f))

RecordOgg ==
  /\ Idle
  /\ isBusy(Cur) # 0 \/ sessions < MaxSessions
  /\ \E f \in {OutFile, Missing}, profile \in {ProfileFile, Missing} :
        Started(recordOgg(Begun(Cur, "recordOgg"), Still, f, profile), NoArg)

StopRecord ==
  /\ Idle
  /\ Done(stopRecord(Begun(Cur, "stopRecord")), NoArg)

\* what the encoder and the card do during one drain; the stop of the encoder
\* matters to a drain of a finishing session only
DrainEnv(finishing) ==
  [fuel : 0..MaxFuel, rest : {0, 1}, adv : {0, 1}, after : {1}, fail : {0, 1},
   polls : IF finishing THEN {0, 1} ELSE {0}, more : {2},
   last : IF finishing THEN {0, 1, BUFFER_SIZE \div 2} ELSE {0},
   half : IF finishing THEN BOOLEAN ELSE {FALSE}]

WriteOggInLoop ==
  /\ Idle
  /\ \E e \in DrainEnv(playing_state = "finishing") :
        /\ curPosition + e.fuel * BUFFER_SIZE <= MaxRecord * BUFFER_SIZE
        /\ isBusy(Cur) \in {2, 4} \/ e = [fuel |-> 0, rest |-> 0, adv |-> 0, after |-> 1,
                                          fail |-> 0, polls |-> 0, more |-> 2, last |-> 0,
                                          half |-> FALSE]
        /\ Done(writeOggInLoop(Begun(Cur, "writeOggInLoop"), e), NoArg)

\* the DREQ notification: one refill cycle, at any point between two steps of
\* the caller's thread
RefillISR ==
  /\ refillEnabled
  /\ obs = NoObs
  /\ pc = "idle" \/ arg.n < MaxNested
  /\ \E e \in Env : Install(refill(Begun(Cur, "refill"), e))
  /\ arg' = IF pc = "idle" THEN arg ELSE [arg EXCEPT !.n = @ + 1]
  /\ UNCHANGED << pc, given, sessions >>

Next ==
  \/ Observed
  \/ Begin
  \/ End
  \/ Play
  \/ Stop
  \/ StopSet
  \/ IsBusy
  \/ PauseMusic
  \/ ResumeMusic
  \/ SkipTo
  \/ Skip
  \/ SkipToSet
  \/ SetVolume
  \/ SetVolumeSent
  \/ LoadUserCode
  \/ RecordOgg
  \/ StopRecord
  \/ WriteOggInLoop
  \/ RefillISR

Spec == Init /\ [][Next]_vars

(* ---------------------- the cancel handshakes alone -------------------- *)
\* One handshake per behaviour: given says which procedure runs, in which mode,
\* on which track, and after how many quanta the chip clears SM_CANCEL
\* (0, or more than the budget: not within this handshake).
FlushModes == {"post", "pre", "both", "none"}
CancelCases ==
  [proc : {"cancelDecoding"}, after : 0..(RETRY_BUDGET + 1), fillTrack : BOOLEAN,
   mode : {"none"}, f : {OggFile, Mp3File}]
  \cup [proc : {"flush_cancel"}, after : 0..(RETRY_BUDGET + 1), fillTrack : {FALSE},
        mode : FlushModes, f : {Mp3File}]

InitCancel == PowerUp /\ given \in CancelCases

CancelBegin ==
  /\ Idle
  /\ playing_state = "uninitialized"
  /\ sessions = 0
  /\ Done(begin(Begun(Cur, "begin"), Still), NoArg)

CancelPlay ==
  /\ Idle
  /\ playing_state = "initialized"
  /\ \E fuel \in 0..1 :
        Started(play(Begun(Cur, "play"), [fuel |-> fuel, adv |-> 0, after |-> 1],
                     given.f, 0, 0), NoArg)

\* the transitions that precede a handshake: stop's to cancelling, skipTo's to
\* paused_playback
CancelStop ==
  /\ Idle
  /\ playing_state = "playback"
  /\ given.proc = "cancelDecoding"
  /\ Done(Return(StopAssign(Begun(Cur, "stop")), 0), NoArg)

CancelPause ==
  /\ Idle
  /\ playing_state = "playback"
  /\ given.proc = "flush_cancel"
  /\ Done(pauseMusic(Begun(Cur, "pauseMusic")), NoArg)

CancelDecoding ==
  /\ Idle
  /\ playing_state = "cancelling"
  /\ Install(cancelDecoding(Begun(Cur, "cancelDecoding"),
                            [fuel |-> 0, adv |-> 0, after |-> given.after], given.fillTrack))
  /\ pc' = "done"
  /\ UNCHANGED << arg, given, sessions >>

FlushCancel ==
  /\ Idle
  /\ playing_state = "paused_playback"
  /\ Install(flush_cancel(Begun(Cur, "flush_cancel"),
                          [fuel |-> 0, adv |-> 0, after |-> given.after], given.mode))
  /\ pc' = "done"
  /\ UNCHANGED << arg, given, sessions >>

NextCancel ==
  \/ Observed
  \/ CancelBegin
  \/ CancelPlay
  \/ CancelStop
  \/ CancelPause
  \/ CancelDecoding
  \/ FlushCancel

SpecCancel == InitCancel /\ [][NextCancel]_vars

(* ------------------------- the patch loader alone ----------------------- *)
MaxWords == 3
PatchWords == {255, 256, 4660, 33023}
PatchAddrs == {6144, 32832}

\* the sequences of at most n words
WordSeqs(n) == UNION {[1..k -> PatchWords] : k \in 0..n}

\* a word as the file holds it
FileWord(w) == << w % 256, w \div 256 >>

RECURSIVE FileWords(_)
FileWords(ws) == IF ws = << >> THEN << >> ELSE FileWord(Head(ws)) \o FileWords(Tail(ws))

\* a patch file of two copy-mode records: one word, the address, for
\* SCI_WRAMADDR, then the words for SCI_WRAM
PatchOf(addr, ws) ==
  [fmt |-> "053",
   bytes |-> FileWord(SCI_WRAMADDR) \o FileWord(1) \o FileWord(addr)
             \o FileWord(SCI_WRAM) \o FileWord(Len(ws)) \o FileWords(ws)]

InitPatch == PowerUp /\ given \in [addr : PatchAddrs, words : WordSeqs(MaxWords)]

PatchBegin ==
  /\ Idle
  /\ playing_state = "uninitialized"
  /\ Done(begin(Begun(Cur, "begin"), Still), NoArg)

LoadPatch ==
  /\ Idle
  /\ playing_state = "initialized"
  /\ LET Returned(l) == Install(Return(l.s, l.r))
     IN Returned(VSLoadUserCode(Begun(Cur, "VSLoadUserCode"), Still,
                                PatchOf(given.addr, given.words)))
  /\ pc' = "loaded"
  /\ UNCHANGED << arg, given, sessions >>

\* Mp3ReadWRAM of the addresses from address on, n of them
RECURSIVE ReadWords(_, _, _)
ReadWords(s, address, n) ==
  IF n = 0 THEN s
  ELSE LET Noted(r) == [r.s EXCEPT !.obs.words = Append(@, r.v)]
       IN ReadWords(Noted(Mp3ReadWRAM(s, Still, address)), address + 1, n - 1)

ReadBack ==
  /\ pc = "loaded"
  /\ obs = NoObs
  /\ Install(ReadWords(Begun(Cur, "Mp3ReadWRAM"), given.addr, Len(given.words)))
  /\ pc' = "read"
  /\ UNCHANGED << arg, given, sessions >>

NextPatch ==
  \/ Observed
  \/ PatchBegin
  \/ LoadPatch
  \/ ReadBack

SpecPatch == InitPatch /\ [][NextPatch]_vars

(* ------------------------ the container scan alone ---------------------- *)
\* OGG files of every layout the two scans meet: the identification header in
\* the first chunk or across its end, the final page inside the last chunk or
\* across the end of an earlier one
OggChannels == {1, 2}
OggRates == {8000, 44100}
OggSamples == {0, 44099, 441000, 705600, 2147483647}
OggLayouts ==
  { [size |-> 2 * BUFFER_SIZE, hdr |-> 28, page |-> 2 * BUFFER_SIZE - 40],
    [size |-> 3 * BUFFER_SIZE, hdr |-> BUFFER_SIZE - 4, page |-> 2 * BUFFER_SIZE - 3],
    [size |-> 3 * BUFFER_SIZE, hdr |-> BUFFER_SIZE - 14, page |-> 3 * BUFFER_SIZE - 14],
    [size |-> 3 * BUFFER_SIZE, hdr |-> 28, page |-> 2 * BUFFER_SIZE - 10] }
OggInputs ==
  { [fmt |-> "ogg", size |-> l.size, hdr |-> l.hdr, ch |-> c, rate |-> r,
     page |-> l.page, samples |-> n] :
       l \in OggLayouts, c \in OggChannels, r \in OggRates, n \in OggSamples }

InitOgg == PowerUp /\ given \in OggInputs

OggBegin ==
  /\ Idle
  /\ playing_state = "uninitialized"
  /\ sessions = 0
  /\ Done(begin(Begun(Cur, "begin"), Still), NoArg)

OggPlay ==
  /\ Idle
  /\ playing_state = "initialized"
  /\ \E fuel \in 0..1, ub \in IF given.fmt = "ogg" THEN Undef ELSE {0} :
        Started(play(Begun(Cur, "play"), [fuel |-> fuel, adv |-> 0, after |-> 1],
                     given, 0, ub), NoArg)

NextOgg ==
  \/ Observed
  \/ OggBegin
  \/ OggPlay

SpecOgg == InitOgg /\ [][NextOgg]_vars

(* ------------------- the identification header anywhere ---------------- *)
\* OGG files of three chunks with the identification header at every offset of
\* the first two chunks and a little beyond
InitScan ==
  /\ PowerUp
  /\ given \in { [fmt |-> "ogg", size |-> 3 * BUFFER_SIZE, hdr |-> h, ch |-> 2,
                   rate |-> 44100, page |-> 3 * BUFFER_SIZE - 14, samples |-> 441000] :
                    h \in 0..(2 * BUFFER_SIZE + 2) }

SpecScan == InitScan /\ [][NextOgg]_vars

(* ------------------------ the 32-bit read alone ------------------------ *)
\* The counter holds given.v when the read starts and gains given.d1 between
\* the first and the second word read and given.d2 between the second and the
\* third, fewer than 2^15 in all.
CounterValues ==
  {0, 1, 32766, 32767, 32768, 65534, 65535, 65536, 98303, 98304, 131071, 2147418111}
CounterTicks == {0, 1, 2, 16384, 32766, 32767}

InitWram ==
  /\ PowerUp
  /\ given \in {g \in [v : CounterValues, d1 : CounterTicks, d2 : CounterTicks] :
                  g.d1 + g.d2 < 32768}

\* Mp3ReadWRAM(para_recordingTime_0, true) on the counting chip; arg.t keeps
\* what it returned
ReadWRAM32 ==
  /\ Idle
  /\ playing_state = "initialized"
  /\ LET Returned(r) ==
            /\ Install(r.s)
            /\ arg' = [NoArg EXCEPT !.t = r.v]
      IN Returned(Mp3ReadWRAM32([Begun(Cur, "Mp3ReadWRAM") EXCEPT !.chip.decodeTime = given.v],
                                [fuel |-> 0, adv |-> 0, after |-> 1,
                                 ticks |-> << given.d1, given.d2 >>],
                                para_recordingTime_0))
  /\ pc' = "done"
  /\ UNCHANGED << given, sessions >>

NextWram ==
  \/ Observed
  \/ OggBegin
  \/ ReadWRAM32

SpecWram == InitWram /\ [][NextWram]_vars

(* --------------------- an OGG session skipped about -------------------- *)
\* One OGG session, its skipTo calls and its refill cycles; DREQ rises again
\* and again while the notification is attached, and the decode time read at a
\* chunk boundary has advanced.
InitRewind == PowerUp /\ given = OggFile

\* the notification is attached and may be served
RefillDue == refillEnabled /\ obs = NoObs /\ (pc = "idle" \/ arg.n < MaxNested)

\* a refill cycle that finds DREQ high and the decode time advanced
RefillAdvances ==
  /\ RefillDue
  /\ \E e \in Env : /\ e.adv = 1 /\ e.fuel >= 1
                     /\ Install(refill(Begun(Cur, "refill"), e))
  /\ arg' = IF pc = "idle" THEN arg ELSE [arg EXCEPT !.n = @ + 1]
  /\ UNCHANGED << pc, given, sessions >>

NextRewind ==
  \/ Observed
  \/ OggBegin
  \/ OggPlay
  \/ SkipTo
  \/ SkipToSet
  \/ RefillISR

\* strong fairness of RefillAdvances, with its enabling condition RefillDue
\* written out
SpecRewind ==
  /\ InitRewind /\ [][NextRewind]_vars
  /\ WF_vars(Observed)
  /\ ([]<>RefillDue => []<><<RefillAdvances>>_vars)

(* ------------------------- one track played again ---------------------- *)
InitReplay == PowerUp /\ given \in {OggFile, Mp3File}

\* play of the track given, on a driver that is not busy
Replay ==
  /\ Idle
  /\ isBusy(Cur) = 0
  /\ playing_state # "uninitialized"
  /\ sessions < MaxReplays
  /\ \E e \in Env, ub \in IF given = OggFile THEN Undef ELSE {0} :
        Started(play(Begun(Cur, "play"), e, given, 0, ub), NoArg)

NextReplay ==
  \/ Observed
  \/ OggBegin
  \/ Replay
  \/ Stop
  \/ StopSet
  \/ RefillISR

SpecReplay == InitReplay /\ [][NextReplay]_vars

(* ------------------------ the image loader alone ----------------------- *)
\* an image file: the magic (or not), one record of the given type, length
\* field and address, followed by the given words, then an execute record for
\* address 80; the last cut bytes of the file are missing
ImageOf(g) ==
  LET word(w) == << w \div 256, w % 256 >>
      words == IF g.words = << >> THEN << >>
               ELSE IF Len(g.words) = 1 THEN word(g.words[1])
               ELSE word(g.words[1]) \o word(g.words[2])
      all == << 80, IF g.magic THEN 38 ELSE 39, 72, g.type >> \o word(g.len)
             \o word(g.addr) \o words \o << 3, 0, 0, 0, 80 >>
  IN [fmt |-> "053", bytes |-> SubSeq(all, 1, Len(all) - g.cut)]

InitImage ==
  /\ PowerUp
  /\ given \in [type : 0..4, len : {0, 2, 4}, addr : {16, 49152},
                 words : UNION {[1..k -> {255, 4660}] : k \in 0..2},
                 cut : 0..6, magic : BOOLEAN, junk : {0, 255}]

\* VSLoadImage of the file given, on a driver that begin has initialized;
\* arg.t is what it left in *address
LoadImage ==
  /\ Idle
  /\ playing_state = "initialized"
  /\ LET Returned(l) == Install(Return(l.s, l.r)) /\ arg' = [NoArg EXCEPT !.t = l.address]
     IN Returned(VSLoadImage(Begun(Cur, "VSLoadImage"), Still, ImageOf(given), given.junk))
  /\ pc' = "loaded"
  /\ UNCHANGED << given, sessions >>

NextImage ==
  \/ Observed
  \/ PatchBegin
  \/ LoadImage

SpecImage == InitImage /\ [][NextImage]_vars

(* ----------------------- the frame-header scan alone -------------------- *)
\* the second byte of a frame header: the last three sync bits, the version, the
\* layer and the protection bit
HeaderByte(version, layer) == 224 + 8 * version + 2 * layer + 1

\* Frame-coded files of every valid header: version bits 3 = MPEG 1, 2 = MPEG 2,
\* 0 = MPEG 2.5; layer bits 3 = layer I, 2 = layer II, 1 = layer III; the
\* bitrate codes 0 .. 14; the first frame at the start of the file or further in.
\* With the layer bits 0 the file holds no frame sync at all.
FrameInputs ==
  { [fmt |-> "mp3", size |-> 40, som |-> a, hb |-> HeaderByte(v, l),
     code |-> c, kbps |-> 128] :
       a \in {0, 10}, v \in {0, 2, 3}, l \in 0..3, c \in 0..14 }

InitFrame == PowerUp /\ given \in FrameInputs

\* setBitRate called by the sketch before it plays the file
SetBitRate ==
  /\ Idle
  /\ playing_state = "initialized"
  /\ bitrate = 0
  /\ Done(setBitRate(Begun(Cur, "setBitRate"), 24), NoArg)

NextFrame ==
  \/ Observed
  \/ OggBegin
  \/ SetBitRate
  \/ OggPlay

\* begin, then play of the file given, with or without a bitrate forced before
SpecFrame == InitFrame /\ [][NextFrame]_vars

(* ------------------------- properties of the sessions ------------------- *)
\* everything of the driver and the chip a session consists of
SessionFields ==
  << playing_state, isPatched, isSkipping, trackFormat, duration, position,
     skipToPosition, bufferOffset, bufferValid, bitrate, start_of_music, VolL, VolR, trackOpen,
     trackFile, curPosition, refillEnabled, oggEnabled, registers_backup, resetPin, chip >>

ActiveStates ==
  {"playback", "paused_playback", "recording", "cancelling", "skipping", "finishing"}

\* C1: a play called while the state is playback, paused_playback, recording,
\* cancelling, skipping or finishing returns 1, touches neither the storage nor
\* the bus, and leaves the state and every field of the session as they were.
C1_PlayWhileActive ==
  [][(Idle /\ obs'.op = "play" /\ playing_state \in ActiveStates)
       => /\ obs'.result = 1
          /\ obs'.nStorage = 0 /\ obs'.nSci = 0 /\ obs'.nSdi = 0
          /\ UNCHANGED SessionFields]_vars

C1_Witness ==
  obs.op = "play" /\ obs.result = 1 /\ playing_state = "finishing" /\ trackOpen

\* C2: whenever a refill cycle of a playback session finds the end of the stream,
\* whether during plain playback, during the fast-forward of an OGG skip, or inside
\* play, a frame-coded skipTo or a register access, the operation leaves the
\* session in ready, with the storage closed and the notification disabled.
C2_EndOfStreamEndsSession ==
  obs.eos => playing_state = "ready" /\ ~trackOpen /\ ~refillEnabled

\* C3: a stop accepted in playback or paused_playback is always followed by the
\* session reaching ready: whenever stop has left the session in cancelling, the
\* notification that will serve the cancellation is enabled, also when a refill
\* cycle ran between stop's busy check and its assignment of the state.
C3_StopIsServed ==
  (obs.op = "stop" /\ obs.result = 0 /\ playing_state = "cancelling") => refillEnabled

C6_SkipToEndCancels ==
  (obs.op = "skipTo" /\ obs.result = 0 /\ trackFormat = "ogg" /\ arg.t >= duration)
    => (playing_state = "cancelling" /\ refillEnabled)

\* C7: a chip that does not clear SM_CANCEL within the budget makes cancelDecoding
\* (fed from the track or with fill bytes) and flush_cancel (in every mode) run
\* exactly 64 iterations of one 32-byte quantum, then write SM_RESET and set
\* isPatched to false; a chip that clears it after k <= 64 quanta makes them run
\* exactly k iterations, with no reset and isPatched left as it was (true).
C7_HandshakeBudget ==
  (obs.op \in {"cancelDecoding", "flush_cancel"})
    => /\ obs.nSdi = obs.hsIters * QUANTUM
                     + (IF obs.flushBefore THEN FLUSH_BYTES ELSE 0)
                     + (IF obs.flushAfter THEN FLUSH_BYTES ELSE 0)
       /\ IF given.after = 0 \/ given.after > RETRY_BUDGET
          THEN obs.hsIters = 64 /\ obs.hsReset /\ ~isPatched /\ ~chip.smCancel
          ELSE obs.hsIters = given.after /\ ~obs.hsReset /\ isPatched

C7_Witness ==
  /\ obs.op = "flush_cancel" /\ given.mode = "both" /\ given.after = 0
  /\ obs.hsIters = 64 /\ obs.hsReset /\ ~isPatched

\* C8: a patch file of one copy-mode record for SCI_WRAMADDR holding A and one
\* copy-mode record for SCI_WRAM holding N words, loaded and then read back with
\* Mp3ReadWRAM of A .. A+N-1, yields the same N words in the same order.
C8_PatchRoundTrip ==
  /\ (obs.op = "VSLoadUserCode" /\ pc = "loaded") => obs.result = 0
  /\ (obs.op = "Mp3ReadWRAM" /\ pc = "read") => obs.words = given.words

C8_Witness ==
  /\ obs.op = "Mp3ReadWRAM" /\ pc = "read" /\ given.words = << 256, 255, 4660 >>
  /\ obs.words = << 256, 255, 4660 >>

C11_Column(hb) == (IF (hb \div 8) % 2 = 1 THEN 0 ELSE 3) + (3 - ((hb \div 2) % 4))

\* C11: for every valid (version, layer, bitrate code) of the first frame header,
\* the scan made by play sets bitrate to the table's entry in the row of the code
\* and the column of that version and layer, divided by 8; for code 0 it is 0.
C11_FrameBitrate ==
  (obs.op = "play" /\ obs.result = 0 /\ given.fmt = "mp3" /\ (given.hb \div 2) % 4 # 0)
    => /\ bitrate = bitrate_table[given.code + 1][C11_Column(given.hb) + 1] \div 8
       /\ given.code = 0 => bitrate = 0

\* C12: the storage handle is never opened (by play, recordOgg, the patch loader
\* or begin) while it is open, and a play or recordOgg that returns 0 was called
\* with the storage closed.
C12_OneSession ==
  [][/\ ~obs'.reopen
     /\ (Idle /\ obs'.op \in {"play", "recordOgg"} /\ obs'.result = 0) => ~trackOpen]_vars

\* the busy code the specification gives for a state
C13_Code(state) ==
  CASE state \in {"playback", "paused_playback"} -> 1
    [] state = "recording" -> 2
    [] state \in {"cancelling", "skipping"} -> 3
    [] state = "finishing" -> 4
    [] OTHER -> 0

C15_ResumeFailures ==
  [][(Idle /\ obs'.op = "resumeMusic")
       => /\ playing_state # "paused_playback"
               => /\ obs'.result = 1
                  /\ obs'.nStorage = 0 /\ obs'.nSci = 0 /\ obs'.nSdi = 0
                  /\ UNCHANGED SessionFields
          /\ (playing_state = "paused_playback" /\ arg'.t # KEEP_POSITION)
               => /\ obs'.nSeek = 1
                  /\ (~trackOpen \/ obs'.seekTarget > FileSize(trackFile))
                       => /\ obs'.result = 2
                          /\ playing_state' = "paused_playback" /\ ~refillEnabled'
                          /\ UNCHANGED << trackOpen, trackFile, curPosition >>
          /\ obs'.result = 2
               => /\ playing_state = "paused_playback" /\ arg'.t # KEEP_POSITION
                  /\ (~trackOpen \/ obs'.seekTarget > FileSize(trackFile))]_vars

C15_Witness ==
  /\ obs.op = "resumeMusic" /\ obs.result = 2 /\ arg.t = 1000 /\ obs.nSeek = 1
  /\ playing_state = "paused_playback" /\ ~refillEnabled /\ trackOpen

\* x clamped into [lo, hi]
C16_Clamp(x, lo, hi) == IF x < lo THEN lo ELSE IF x > hi THEN hi ELSE x

\* C16: on an OGG session with busy code 1, skip(d) hands skipTo the target
\* position + d clamped into [0, duration] and touches nothing; skipTo(t) records
\* skipToPosition = t clamped into [0, duration], sets the state to cancelling if
\* that equals duration and to skipping otherwise, returns 0, and makes no storage
\* operation and no bus transaction.  A session in skipping has
\* skipToPosition < duration.
C16_OggSkipClamps ==
  [][/\ (Idle /\ obs'.op = "skip" /\ pc' = "skipTo" /\ trackFormat = "ogg")
          => /\ arg'.t = C16_Clamp(position + arg'.d, 0, duration)
             /\ obs'.nStorage = 0 /\ obs'.nSci = 0 /\ obs'.nSdi = 0
             /\ UNCHANGED SessionFields
     /\ (pc = "skipTo" /\ pc' = "idle" /\ trackFormat = "ogg")
          => /\ obs'.result = 0
             /\ skipToPosition' = C16_Clamp(arg.t, 0, duration)
             /\ playing_state' = IF skipToPosition' = duration THEN "cancelling"
                                 ELSE "skipping"
             /\ obs'.nStorage = 0 /\ obs'.nSeek = 0 /\ obs'.nSci = 0 /\ obs'.nSdi = 0
             /\ UNCHANGED << trackOpen, trackFile, curPosition, chip, duration, position >>
     /\ playing_state' = "skipping" => skipToPosition' < duration']_vars

C16_Witness ==
  /\ obs.op = "skip" /\ pc = "idle" /\ trackFormat = "ogg" /\ arg.d = -1 /\ arg.t = 1
  /\ skipToPosition = 1 /\ duration = 2 /\ playing_state = "skipping"

\* C17: recordOgg tells its three failures apart by the code it returns: 1 for
\* a busy driver, 2 for a recording profile that could not be loaded, and for a
\* destination file that could not be opened a non-zero code that is neither.
C17_DistinctCodes ==
  obs.op = "recordOgg"
    => CASE obs.exit = "busy" -> obs.result = 1
         [] obs.exit = "profile" -> obs.result = 2
         [] obs.exit = "open" -> obs.result \notin {0, 1, 2}
         [] OTHER -> obs.result = 0

\* C18: a recordOgg that returns a non-zero code leaves no session half-created:
\* called on a busy driver it changes nothing, and after a profile that could not
\* be loaded or a destination that could not be opened the state is ready and no
\* storage handle is open.
C18_FailureLeavesReady ==
  [][(Idle /\ obs'.op = "recordOgg" /\ obs'.result # 0)
       => IF isBusy(Cur) # 0 THEN UNCHANGED SessionFields
          ELSE playing_state' = "ready" /\ ~trackOpen']_vars

\* C19: a successful recordOgg leaves in registers_backup the values SCI_CLOCKF,
\* SCI_BASS and SCI_MODE had when it was called; no operation changes
\* registers_backup while the state is recording or finishing; and the drain that
\* ends the session (the encoder has stopped, or a storage write failed) writes
\* registers_backup[0] to SCI_CLOCKF, registers_backup[1] to SCI_BASS and
\* registers_backup[2] to SCI_MODE, in this order, before it leaves the state ready.
C19_BackupRestored ==
  [][/\ (Idle /\ obs'.op = "recordOgg" /\ obs'.result = 0)
          => /\ playing_state' = "recording"
             /\ registers_backup' = << ChipValue(chip, SCI_CLOCKF),
                                       ChipValue(chip, SCI_BASS),
                                       ChipValue(chip, SCI_MODE) >>
     /\ playing_state \in {"recording", "finishing"}
          => UNCHANGED registers_backup
     /\ (playing_state \in {"recording", "finishing"} /\ playing_state' = "ready")
          => /\ obs'.op = "writeOggInLoop"
             /\ obs'.restored = << << SCI_CLOCKF, registers_backup[1] >>,
                                   << SCI_BASS, registers_backup[2] >>,
                                   << SCI_MODE, registers_backup[3] >> >>
     /\ (obs'.op = "writeOggInLoop" /\ playing_state' # "ready")
          => obs'.restored = << >>]_vars

C19_Witness ==
  /\ obs.op = "writeOggInLoop" /\ obs.result = 2 /\ playing_state = "ready"
  /\ Len(obs.restored) = 3 /\ obs.restored[1] = << SCI_CLOCKF, CLOCK_3X >>
  /\ registers_backup[1] = CLOCK_3X /\ obs.closedIn = "oggRefill"

C21_NoFeedInTransaction ==
  (pc = "sci" /\ playing_state \in {"playback", "skipping", "cancelling"})
    => obs.nSdi = 0

\* C22: flush_cancel(mode) feeds the 2052 fill bytes before its first cancel
\* request exactly when mode is pre or both, and feeds them after the cancel bit
\* was read clear exactly when mode is post or both and the handshake succeeded;
\* with mode none it makes neither flush.
C22_FlushOrder ==
  obs.op = "flush_cancel"
    => /\ obs.flushBefore <=> given.mode \in {"pre", "both"}
       /\ obs.flushAfter <=> (given.mode \in {"post", "both"} /\ ~obs.hsReset)

\* C23: VSLoadUserCode returns 3 if the chip is in reset, else 1 if the driver is
\* busy, else 2 if the file cannot be opened (it is not on the card, or the handle
\* is in use), else 0.  Returning 1, 2 or 3 it has made no bus access and changed
\* nothing of the driver or the chip; returning 0 it has closed the file it
\* opened, also when the file ended inside a record.
C23_LoadUserCodeCodes ==
  [][(Idle /\ obs'.op = "VSLoadUserCode")
       => /\ obs'.result = IF ~resetPin THEN 3
                           ELSE IF isBusy(Cur) # 0 THEN 1
                           ELSE IF trackOpen \/ arg'.t = 0 THEN 2
                           ELSE 0
          /\ obs'.result # 0
               => /\ obs'.nSci = 0 /\ obs'.nSdi = 0 /\ obs'.nClose = 0
                  /\ UNCHANGED SessionFields
          /\ obs'.result = 0
               => /\ ~trackOpen' /\ obs'.nClose = 1 /\ obs'.closedIn = "VSLoadUserCode"
                  /\ obs'.nSci > 0]_vars

\* a file that ends inside a copy run, loaded on an idle driver
C23_Witness ==
  /\ obs.op = "VSLoadUserCode" /\ obs.result = 0 /\ obs.nSci = 1 /\ obs.nClose = 1
  /\ ~trackOpen /\ playing_state = "ready"

\* where the record of an image file puts its first word
C24_Base(g) ==
  (g.addr + (CASE g.type = 0 -> 32768 [] g.type = 1 -> 0 [] OTHER -> 16384)) % 65536

\* the image loader has written exactly the words ws from C24_Base on, in order
C24_Written(ws) ==
  /\ obs'.nSci = 1 + Len(ws)
  /\ chip'.wramAddr = (C24_Base(given) + Len(ws)) % 65536
  /\ \A i \in 1..Len(ws) : chip'.wram[(C24_Base(given) + i - 1) % 65536] = ws[i]
  /\ DOMAIN chip'.wram
       = DOMAIN chip.wram \cup {(C24_Base(given) + i - 1) % 65536 : i \in 1..Len(ws)}

\* C24 as claimed: a record of type 0, 1 or 2 whose length field is L, followed
\* by L words, has exactly these L words written to indirect memory from the
\* type's base plus the record's address on, in file order.
C24_LengthWordsWritten ==
  [][(Idle /\ obs'.op = "VSLoadImage" /\ given.magic /\ given.type \in 0..2
        /\ given.cut = 0 /\ Len(given.words) = given.len)
       => C24_Written(given.words)]_vars

\* C24: a record of type 0, 1 or 2 whose length field is L, followed by L bytes
\* of payload, has exactly these L / 2 words written to indirect memory from the
\* type's base plus the record's address (modulo 2^16) on, in file order.
C24_LengthBytesWritten ==
  [][(Idle /\ obs'.op = "VSLoadImage" /\ given.magic /\ given.type \in 0..2
        /\ given.cut <= 5 /\ 2 * Len(given.words) = given.len)
       => C24_Written(given.words)]_vars

\* two words loaded at 0x8000 + 0xC000, which wraps to 0x4000
C24_Witness ==
  /\ obs.op = "VSLoadImage" /\ obs.result = 0 /\ given.type = 0 /\ given.addr = 49152
  /\ given.words = << 4660, 255 >> /\ given.len = 4 /\ obs.nSci = 3
  /\ chip.wram[16384] = 4660 /\ chip.wram[16385] = 255 /\ arg.t = 80

\* C25: VSLoadImage returns 0 exactly when the magic matched and an execute
\* record was read whole after the record before it was read whole, *address then
\* being that record's address; a bad magic, a record of type 4 or more, or a file
\* that ends inside a record gives a non-zero result with *address = 0xFFFF; and
\* the file is closed when the loader returns.
C25_ImageResult ==
  (obs.op = "VSLoadImage" /\ (given.type >= 3 \/ 2 * Len(given.words) = given.len))
    => LET whole == /\ given.magic
                    /\ \/ given.type = 3 /\ given.cut <= 5 + 2 * Len(given.words)
                       \/ given.type \in 0..2 /\ given.cut = 0
       IN /\ obs.result = 0 <=> whole
          /\ obs.result = 0 => arg.t = IF given.type = 3 THEN given.addr ELSE 80
          /\ obs.result # 0 => arg.t = 65535
          /\ ~trackOpen

C27_PositionMonotonic ==
  [][(obs = NoObs /\ obs'.op = "refill" /\ playing_state = "playback")
       => position' >= position]_vars

\* C28: when play returns 0, position is 0 or the decode time the chip holds
\* since play cleared it; it is not what the session before left.
C28_PlayResetsPosition ==
  (obs.op = "play" /\ obs.result = 0) => position \in {0, chip.decodeTime}

\* C29: end() called during playback leaves the storage closed, the
\* notification disabled and the state uninitialized.
C29_EndClosesSession ==
  [][(Idle /\ obs'.op = "end" /\ playing_state = "playback")
       => ~trackOpen' /\ ~refillEnabled' /\ playing_state' = "uninitialized"]_vars

\* C30: wherever the identification header lies in the file, at a chunk end
\* included, the forward scan of play reads the channel count and the sample
\* rate that follow its marker.
C30_HeaderFoundAnywhere ==
  (obs.op = "play" /\ obs.result = 0 /\ given.fmt = "ogg")
    => obs.channelNumber = given.ch /\ obs.sampleRate = given.rate

\* C31: no register transaction is put on the bus before DREQ has been seen
\* high after the transfer that preceded it, the decode-time read of a refill
\* cycle at a chunk boundary included.
C31_SciAfterReady == obs.nUnready = 0

\* C32 as stated: a refill cycle that observes cancelling reads no further
\* chunk during the cancel handshake and feeds nothing of the track.
C32_CancelFeedsFillOnly ==
  [][(playing_state = "cancelling" /\ obs'.op = "refill" /\ obs'.closedIn = "refill"
      /\ ~obs'.eos)
       => obs'.hsReads = 0 /\ obs'.hsTrack = 0]_vars

\* C32, amended: a refill cycle that observes cancelling runs the handshake
\* in the mode that keeps feeding the track: each iteration feeds the next
\* quantum of the buffer, and a further chunk is read whenever the buffer is
\* used up; the fill byte is fed only past the end of the file and in fillEnd.
C32_CancelFeedsTrack ==
  [][(playing_state = "cancelling" /\ obs'.op = "refill" /\ obs'.closedIn = "refill"
      /\ ~obs'.eos)
       => LET off == IF bufferOffset = BUFFER_SIZE THEN 0 ELSE bufferOffset
              n == obs'.hsIters
          IN /\ n >= 1
             /\ obs'.hsReads = (off + QUANTUM * (n - 1)) \div BUFFER_SIZE
             /\ obs'.hsTrack >= QUANTUM
             /\ ~obs'.hsEof => obs'.hsTrack = QUANTUM * n
             /\ obs'.nSdi = QUANTUM * n + FILL_END_ROUNDS * QUANTUM]_vars

C32_Witness ==
  /\ obs.op = "refill" /\ obs.closedIn = "refill" /\ ~obs.eos
  /\ obs.hsReads = 1 /\ obs.hsTrack = 2 * QUANTUM /\ playing_state = "ready"

\* C33 as stated: every fillEnd of a refill cycle follows a finished cancel
\* handshake, and no cancel is requested after it.
C33_FillEndAfterCancel ==
  \A i \in 1..Len(obs.trail) :
    obs.trail[i] = "fillEnd"
      => /\ i > 1 /\ obs.trail[i - 1] = "cancelled"
         /\ \A j \in (i + 1)..Len(obs.trail) : obs.trail[j] # "cancel"

\* C33, amended: in the cancelling and rewind branches fillEnd follows the
\* finished cancel handshake; at the end of the stream fillEnd comes first and
\* the cancel is requested, and its handshake run, after it.
C33_FillEndOrder ==
  LET n == Len(obs.trail)
  IN /\ \A i \in 1..n :
          obs.trail[i] = "fillEnd"
            => \/ i > 1 /\ obs.trail[i - 1] = "cancelled"
               \/ obs.eos /\ i = n - 2
     /\ obs.eos => /\ n >= 3
                   /\ obs.trail[n - 2] = "fillEnd"
                   /\ obs.trail[n - 1] = "cancel"
                   /\ obs.trail[n] = "cancelled"

C33_Witness ==
  /\ obs.op = "refill" /\ obs.eos /\ playing_state = "ready"
  /\ obs.trail = << "fillEnd", "cancel", "cancelled" >>

\* C34: each fillEnd puts 2052 bytes on the data channel, the quantity of the
\* flushes of flush_cancel.
C34_FillEndBytes ==
  obs.nFillEnd = FLUSH_BYTES * Cardinality({i \in 1..Len(obs.trail) : obs.trail[i] = "fillEnd"})

\* the refill cycle that enters the fast-forward of a skip backwards has first
\* cancelled, flushed, sought offset 0 and cleared the position
C35_RewindFirst ==
  [][(trackFormat = "ogg" /\ playing_state = "skipping" /\ ~isSkipping
      /\ position > skipToPosition /\ obs'.op = "refill" /\ isSkipping')
       => /\ Len(obs'.trail) >= 3
          /\ SubSeq(obs'.trail, 1, 3) = << "cancel", "cancelled", "fillEnd" >>
          /\ obs'.nSeek = 1 /\ obs'.seekTarget = 0]_vars

\* a skip backwards ends in playback at or past its target, at normal speed and
\* with the volume restored
C35_SkipEnds ==
  (trackFormat = "ogg" /\ playing_state = "skipping" /\ ~isSkipping
   /\ position > skipToPosition)
    ~> (playing_state = "playback" /\ position >= skipToPosition
        /\ chip.playSpeed = 1 /\ chip.vol = VolL * 256 + VolR)

\* C35: in an OGG session a skip to a target below the position is served by a
\* rewind (cancel, seek to offset 0, decode time and position cleared) before
\* the fast-forward starts, and, on a chip whose decode time advances, the
\* session comes back to playback at or past the target, at normal speed and
\* with the volume pair restored.
C35_RewindThenForward == C35_RewindFirst /\ C35_SkipEnds

\* C36: the 32-bit indirect read of a counter that goes on counting returns a
\* value the counter held between the first and the last of its three word
\* reads, a carry out of the low word during the read included.
C36_ConsistentRead ==
  (obs.op = "Mp3ReadWRAM" /\ pc = "done")
    => /\ arg.t \in given.v..(given.v + given.d1 + given.d2)
       /\ chip.decodeTime = given.v + given.d1 + given.d2

C36_Witness ==
  /\ obs.op = "Mp3ReadWRAM" /\ pc = "done" /\ obs.nSci = 5
  /\ given.v = 65535 /\ given.d1 = 1 /\ given.d2 = 32766 /\ arg.t = 65536

\* C37: when an operation or a refill cycle has returned and no session is
\* active (state ready, initialized or uninitialized), the notification is
\* detached.
C37_NoSessionNoNotification ==
  (pc = "idle" /\ playing_state \in {"ready", "initialized", "uninitialized"})
    => ~refillEnabled

\* C38: what a session that is played without skip feeds to the chip is the
\* bytes of the chunks read, each once and in order: no byte left in the
\* buffer by an earlier read is fed, a short last chunk included.
C38_NoStaleByteFed ==
  [][(obs'.op = "refill" /\ playing_state = "playback" /\ obs'.nStorage = 0
      /\ bufferOffset' > bufferOffset)
       => bufferOffset' <= bufferValid']_vars

\* C39: a refill cycle that finds no session active (state initialized, ready
\* or paused_playback) puts no byte on the data channel and reads nothing from
\* storage.
C39_IdleRefillDoesNothing ==
  [][(obs'.op = "refill" /\ playing_state \in {"initialized", "ready", "paused_playback"})
       => obs'.nSdi = 0 /\ obs'.nStorage = 0]_vars

\* C40: a skipTo on a frame-coded session whose seek fails returns 2 and
\* leaves the state and the notification as they were, and the chip not muted.
C40_FailedSeekLeavesSession ==
  [][(pc = "skipTo" /\ obs'.op \in {"skipTo", "skip"} /\ obs'.result = 2
      /\ trackFormat # "ogg")
       => /\ playing_state' = playing_state
          /\ refillEnabled' = refillEnabled
          /\ chip'.vol # 254 * 256 + 254]_vars
====
